---- MODULE Spec2Model ----
(***************************************************************************)
(* A model of the metadata-driven ETL job runner (Raw -> Curated ->        *)
(* Processed): the SCD1/SCD2 merge engine of scripts/scd_type.py and the   *)
(* constraint enforcement of scripts/raw_curated.py.                       *)
(*                                                                         *)
(* Tables are sequences of rows (a processed table has no key constraint:  *)
(* create_ddl.py never inlines a metadata PK there, so it is a bag of rows *)
(* in insertion order).  A row is a function from column names to values.  *)
(* SQL statements are modelled by their effect on the table, with SQL's    *)
(* three-valued comparison: a comparison with NULL is never true.          *)
(***************************************************************************)
EXTENDS Integers, Sequences, FiniteSets, TLC

VARIABLES
    hist,       \* the SCD2 target table: rows with StartTime, EndTime, IsCurrent
    clock,      \* the database clock read by GETDATE()
    tbl,        \* the SCD1 target table
    lastOp,     \* the operation that ran last ("none" before any)
    lastBatch,  \* the DataFrame it was given
    lastPre,    \* the target table as it was before it ran
    raised,     \* whether it raised (the transaction was rolled back)
    meta,       \* the Metadata rows of the job, in column order
    loadType,   \* Config.LoadType of the job
    refs,       \* the referenced tables: whether readable, and their values
    src,        \* the source table of the stage (the raw table), or the
                \* DataFrame given to enforce_pk_fk
    out,        \* the DataFrame after enforcement (handed to the load)
    curated,    \* the curated target table
    result,     \* the record the stage handler returned
    audit,      \* the JobAudit rows of the job
    tracker,    \* IncrementalTracker: LastLoadTime per stage, NULL if absent
    cfg,        \* the Config row of the job, or NoConfig
    catalog,    \* the tables of the database: the column definitions of each
    coldef,     \* what _build_column_def returned
    events,     \* the events run_job has yielded, over all invocations
    called,     \* the stage handlers the current run_job invocation called
    pc,         \* where the run_job generator is suspended ("idle": not running)
    caller      \* who iterates over run_job: "main" leaves the loop at the first
                \* error event, "drain" takes every event

vars == <<hist, clock, tbl, lastOp, lastBatch, lastPre, raised,
          meta, loadType, refs, src, out, curated, result, audit, tracker,
          cfg, catalog, coldef, events, called, pc, caller>>

pipeVars == <<meta, loadType, refs, src, out, curated, result, audit, tracker>>

jobVars == <<cfg, catalog, coldef, events, called, pc, caller>>

(***************************************************************************)
(* Values.  A DataFrame cell is NA (pandas None/NaN) or a value 1..Max;    *)
(* a stored cell is NULL or a value.                                       *)
(***************************************************************************)
NULL == 0
NA == -1

MaxKey == 2      \* key values 1..MaxKey of an SCD1 batch
MaxKey2 == 1     \* key values 1..MaxKey2 of an SCD2 batch
MaxVal == 2      \* attribute values 1..MaxVal
MaxBatch == 2    \* rows of one batch
MaxRows == 4     \* rows of the SCD2 table
MaxRows1 == 3    \* rows of the SCD1 table
MaxInit1 == 2    \* rows of the initial SCD1 table
MaxClock == 2    \* last clock reading

key_columns == <<"key">>
target_cols == <<"key", "val">>

Range(s) == {s[i] : i \in DOMAIN s}

KeyCols == Range(key_columns)
NonKeyCols == Range(target_cols) \ KeyCols

DfRows(maxKey) == [key : {NA} \cup (1..maxKey), val : {NA} \cup (1..MaxVal)]
Batches(maxKey) == UNION {[1..n -> DfRows(maxKey)] : n \in 1..MaxBatch}

\* f"'{row[col]}'" if pd.notna(row[col]) else "NULL"
SqlLiteral(v) == IF v = NA THEN NULL ELSE v

\* the VALUES clause: one tuple per DataFrame row, in DataFrame order
ValuesClause(df) ==
    [j \in DOMAIN df |-> [c \in Range(target_cols) |-> SqlLiteral(df[j][c])]]

\* t.[col] = s.[col] for every key column
OnKeys(t, s) ==
    \A c \in KeyCols : t[c] # NULL /\ s[c] # NULL /\ t[c] = s[c]

\* one column's change check
ColChanged(a, b) ==
    \/ (a # NULL /\ b # NULL /\ a # b)
    \/ (a = NULL /\ b # NULL)
    \/ (a # NULL /\ b = NULL)

\* change_checks: some non-key column changed
ChangeChecks(t, s) == \E c \in NonKeyCols : ColChanged(t[c], s[c])

RECURSIVE Flatten(_)
Flatten(ss) == IF ss = <<>> THEN <<>> ELSE Head(ss) \o Flatten(Tail(ss))

(***************************************************************************)
(* scd2_merge                                                              *)
(***************************************************************************)
\* Step 1, update_sql: close the current rows that join a changed source row
Scd2Update(t, s, now) ==
    [i \in DOMAIN t |->
        IF /\ t[i].IsCurrent
           /\ \E j \in DOMAIN s : OnKeys(t[i], s[j]) /\ ChangeChecks(t[i], s[j])
        THEN [t[i] EXCEPT !.IsCurrent = FALSE, !.EndTime = now]
        ELSE t[i]]

\* the rows the LEFT JOIN yields for one source row and survive the WHERE:
\* one if no current row joins it, else one per joined current row that changed
Scd2JoinCount(t, srow) ==
    LET joined == {i \in DOMAIN t : t[i].IsCurrent /\ OnKeys(t[i], srow)}
    IN  IF joined = {} THEN 1
        ELSE Cardinality({i \in joined : ChangeChecks(t[i], srow)})

NewVersion(srow, now) ==
    [key |-> srow.key, val |-> srow.val,
     StartTime |-> now, EndTime |-> NULL, IsCurrent |-> TRUE]

\* Step 2, insert_sql
Scd2Insert(t, s, now) ==
    Flatten([j \in DOMAIN s |->
                [n \in 1..Scd2JoinCount(t, s[j]) |-> NewVersion(s[j], now)]])

\* both statements in one transaction; GETDATE() is read by each statement
scd2_merge(df) ==
    \E tClose \in clock..MaxClock : \E tInsert \in tClose..MaxClock :
        LET s == ValuesClause(df)
            closed == Scd2Update(hist, s, tClose)
            added == Scd2Insert(closed, s, tInsert)
        IN  /\ Len(closed) + Len(added) <= MaxRows
            /\ hist' = closed \o added
            /\ clock' = tInsert
            /\ lastOp' = "scd2_merge"
            /\ lastBatch' = df
            /\ lastPre' = hist
            /\ raised' = FALSE
            /\ UNCHANGED <<tbl, pipeVars, jobVars>>

\* the job state of a specification that runs neither run_job nor the ddl stage
NoConfig == [TargetSchema |-> "none"]

JobIdle ==
    /\ cfg = NoConfig
    /\ catalog = {}
    /\ coldef = [ok |-> FALSE, error |-> "none"]
    /\ events = <<>>
    /\ called = <<>>
    /\ pc = "idle"
    /\ caller = "main"

\* the stage state of a specification that runs no stage
PipeIdle ==
    /\ meta = <<>>
    /\ loadType = "full"
    /\ refs = <<>>
    /\ src = <<>>
    /\ out = <<>>
    /\ curated = <<>>
    /\ result = [status |-> "none"]
    /\ audit = <<>>
    /\ tracker = [stage \in {"raw_curated"} |-> NULL]
    /\ JobIdle

InitScd2 ==
    /\ PipeIdle
    /\ hist = <<>>
    /\ clock = 1
    /\ tbl = <<>>
    /\ lastOp = "none"
    /\ lastBatch = <<>>
    /\ lastPre = <<>>
    /\ raised = FALSE

NextScd2 == \E df \in Batches(MaxKey2) : scd2_merge(df)

SpecScd2 == InitScd2 /\ [][NextScd2]_vars

(***************************************************************************)
(* scd1_merge                                                              *)
(***************************************************************************)
StoredRows == [key : {NULL} \cup (1..MaxKey), val : {NULL} \cup (1..MaxVal)]
InitTables == UNION {[1..n -> StoredRows] : n \in 0..MaxInit1}

\* df.drop_duplicates(subset=cols, keep="last"): pandas counts NA equal to NA
DropDuplicatesLast(df, cols) ==
    LET keep(j) == ~\E j2 \in DOMAIN df :
                        j2 > j /\ \A c \in cols : df[j2][c] = df[j][c]
        Sel[n \in 0..Len(df)] ==
            IF n = 0 THEN <<>>
            ELSE IF keep(n) THEN Append(Sel[n - 1], df[n]) ELSE Sel[n - 1]
    IN  Sel[Len(df)]

\* the source rows of the MERGE: the VALUES clause is built from df as it
\* was passed in; the de-duplicated frame is assigned afterwards and is not
\* what the statement reads
Scd1Source(df) ==
    LET values_clause == ValuesClause(df)
        deduped == DropDuplicatesLast(df, KeyCols)
    IN  values_clause

\* MERGE fails when a target row is matched by more than one source row
MergeRaises(t, s) ==
    \E i \in DOMAIN t :
        Cardinality({j \in DOMAIN s : OnKeys(t[i], s[j])}) > 1

\* WHEN MATCHED THEN UPDATE SET the non-key columns
\* WHEN NOT MATCHED THEN INSERT the source row
MergeUpsert(t, s) ==
    LET hit(i) == CHOOSE j \in DOMAIN s : OnKeys(t[i], s[j])
        updated == [i \in DOMAIN t |->
                      IF \E j \in DOMAIN s : OnKeys(t[i], s[j])
                      THEN [c \in DOMAIN t[i] |->
                              IF c \in NonKeyCols THEN s[hit(i)][c] ELSE t[i][c]]
                      ELSE t[i]]
        unmatched(j) == ~\E i \in DOMAIN t : OnKeys(t[i], s[j])
        Ins[n \in 0..Len(s)] ==
            IF n = 0 THEN <<>>
            ELSE IF unmatched(n) THEN Append(Ins[n - 1], s[n]) ELSE Ins[n - 1]
    IN  updated \o Ins[Len(s)]

\* the table scd1_merge leaves: unchanged when the statement raises
Scd1Result(t, df) ==
    IF MergeRaises(t, Scd1Source(df)) THEN t ELSE MergeUpsert(t, Scd1Source(df))

scd1_merge(df) ==
    /\ Len(Scd1Result(tbl, df)) <= MaxRows1
    /\ tbl' = Scd1Result(tbl, df)
    /\ raised' = MergeRaises(tbl, Scd1Source(df))
    /\ lastOp' = "scd1_merge"
    /\ lastBatch' = df
    /\ lastPre' = tbl
    /\ UNCHANGED <<hist, clock, pipeVars, jobVars>>

InitScd1 ==
    /\ PipeIdle
    /\ tbl \in InitTables
    /\ hist = <<>>
    /\ clock = 1
    /\ lastOp = "none"
    /\ lastBatch = <<>>
    /\ lastPre = <<>>
    /\ raised = FALSE

NextScd1 == \E df \in Batches(MaxKey) : scd1_merge(df)

SpecScd1 == InitScd1 /\ [][NextScd1]_vars

(***************************************************************************)
(* Raw -> Curated: DataFrames of the raw_curated.py pipeline.              *)
(* A cell is missing (None/NaN/NA), a string, or a number; numbers are     *)
(* counted in tenths, so that 1.5 is 15 and 1 is 10.                       *)
(***************************************************************************)
NaCell == [k |-> "na"]
Str(s) == [k |-> "str", s |-> s]
Num(n) == [k |-> "num", v |-> n]

IsNa(c) == c.k = "na"

\* the strings that read as numbers, and the number each reads as
NumericStrings == {"1", "2", "-1", "1.5"}
ParseNumber(s) ==
    CASE s = "1" -> 10
      [] s = "2" -> 20
      [] s = "-1" -> -10
      [] s = "1.5" -> 15

IsIntegral(n) == n % 10 = 0

\* Series.astype(str): a missing value becomes the string "None"
AsStr(c) == IF IsNa(c) THEN Str("None") ELSE c

\* .replace({"": None, "nan": None, "None": None})
NormalizeNull(c) ==
    IF c.k = "str" /\ c.s \in {"", "nan", "None"} THEN NaCell ELSE c

SetCol(df, col, f(_)) ==
    [j \in DOMAIN df |-> [c \in DOMAIN df[j] |->
                            IF c = col THEN f(df[j][c]) ELSE df[j][c]]]

\* the order-preserving subsequence of the rows that satisfy keep
FilterRows(df, keep(_)) ==
    LET Sel[n \in 0..Len(df)] ==
            IF n = 0 THEN <<>>
            ELSE IF keep(n) THEN Append(Sel[n - 1], df[n]) ELSE Sel[n - 1]
    IN  Sel[Len(df)]

\* df.drop_duplicates(subset=cols), keep="first"
DropDuplicatesFirst(df, cols) ==
    FilterRows(df, LAMBDA j : ~\E j2 \in DOMAIN df :
                                  j2 < j /\ \A c \in cols : df[j2][c] = df[j][c])

\* df.dropna(subset=cols)
DropNa(df, cols) ==
    FilterRows(df, LAMBDA j : \A c \in cols : ~IsNa(df[j][c]))

ColumnsOf(metadata) == {metadata[m].TargetColumnName : m \in DOMAIN metadata}

\* clean_dataframe without its final drop_duplicates: every column read from
\* a raw table is an object column
CleanCells(df, cols) ==
    [j \in DOMAIN df |-> [c \in cols |-> NormalizeNull(AsStr(df[j][c]))]]

clean_dataframe(df, cols) == DropDuplicatesFirst(CleanCells(df, cols), cols)

\* pd.to_numeric(errors="coerce") of one cell
ToNumeric(c) ==
    IF c.k = "str"
    THEN IF c.s \in NumericStrings THEN Num(ParseNumber(c.s)) ELSE NaCell
    ELSE c

\* .astype("Int64") raises on a column that holds a non-integer number
IntCastRaises(df, col) ==
    \E j \in DOMAIN df :
        LET n == ToNumeric(df[j][col]) IN n.k = "num" /\ ~IsIntegral(n.v)

\* one metadata row of cast_dataframe_types: an exception leaves the column
\* as it was
CastColumn(df, m) ==
    LET col == m.TargetColumnName
        dtype == m.TargetDataType
    IN  IF dtype \in {"INT", "BIGINT"}
        THEN IF IntCastRaises(df, col) THEN df ELSE SetCol(df, col, ToNumeric)
        ELSE IF dtype \in {"DECIMAL", "NUMERIC", "FLOAT", "REAL"}
        THEN SetCol(df, col, ToNumeric)
        ELSE IF dtype \in {"NVARCHAR", "VARCHAR", "TEXT"}
        THEN SetCol(df, col, AsStr)
        ELSE df

cast_dataframe_types(df, metadata) ==
    LET Cast[n \in 0..Len(metadata)] ==
            IF n = 0 THEN df ELSE CastColumn(Cast[n - 1], metadata[n])
    IN  Cast[Len(metadata)]

\* select_dtypes(include=["number"]): numbers are held only by the columns
\* whose numeric cast succeeded; a row is dropped when any of them is < 0
enforce_no_negative(df) ==
    FilterRows(df, LAMBDA j : ~\E c \in DOMAIN df[j] :
                                  df[j][c].k = "num" /\ df[j][c].v < 0)

PkCols(metadata) ==
    {metadata[m].TargetColumnName : m \in {x \in DOMAIN metadata : metadata[x].IsPK = 1}}

\* Primary Key enforcement
EnforcePk(df, metadata) ==
    IF PkCols(metadata) # {}
    THEN DropDuplicatesLast(DropNa(df, PkCols(metadata)), PkCols(metadata))
    ELSE df

\* NOT NULL enforcement, one column after the other
EnforceNotNull(df, metadata) ==
    LET Nn[n \in 0..Len(metadata)] ==
            IF n = 0 THEN df
            ELSE IF metadata[n].IsNullable = 0
                 THEN DropNa(Nn[n - 1], {metadata[n].TargetColumnName})
                 ELSE Nn[n - 1]
    IN  Nn[Len(metadata)]

\* a metadata row that is an FK rule
IsFkRule(m) == m.IsFK = 1 /\ m.ReferenceTable \notin {"None", "NULL", ""}

\* one FK rule: the lookup raises (the rule is skipped) or yields the
\* referenced values, and the rows whose value is not among them are dropped
ApplyFkRule(df, m, reference) ==
    IF ~reference[m.ReferenceTable].readable THEN df
    ELSE LET valid_values ==
                 {v \in reference[m.ReferenceTable].values : ~IsNa(v)}
         IN  FilterRows(df, LAMBDA j : df[j][m.TargetColumnName] \in valid_values)

\* a Foreign Key loop that a failed lookup ends: the rules after it do not run
EnforceFkEndedByFailure(df, metadata, reference) ==
    LET failed(n) == \E k \in 1..n :
                        /\ IsFkRule(metadata[k])
                        /\ ~reference[metadata[k].ReferenceTable].readable
        Fk[n \in 0..Len(metadata)] ==
            IF n = 0 THEN df
            ELSE IF IsFkRule(metadata[n]) /\ ~failed(n)
                 THEN ApplyFkRule(Fk[n - 1], metadata[n], reference)
                 ELSE Fk[n - 1]
    IN  Fk[Len(metadata)]

\* Foreign Key enforcement, one rule after the other
EnforceFk(df, metadata, reference) ==
    LET Fk[n \in 0..Len(metadata)] ==
            IF n = 0 THEN df
            ELSE IF IsFkRule(metadata[n])
                 THEN ApplyFkRule(Fk[n - 1], metadata[n], reference)
                 ELSE Fk[n - 1]
    IN  Fk[Len(metadata)]

enforce_pk_fk(df, metadata, reference) ==
    EnforceFk(EnforceNotNull(EnforcePk(df, metadata), metadata), metadata, reference)

\* Steps 3 and 4 of load_raw_to_curated
CurateBatch(df, metadata, reference) ==
    enforce_pk_fk(
        enforce_no_negative(
            cast_dataframe_types(clean_dataframe(df, ColumnsOf(metadata)), metadata)),
        metadata, reference)

(***************************************************************************)
(* JobAudit and IncrementalTracker                                         *)
(***************************************************************************)
\* INSERT INTO JobAudit ... 'Running', with EndTime left NULL
log_job_start(a, stage) ==
    Append(a, [Stage |-> stage, Status |-> "Running", EndTime |-> NULL])

\* UPDATE JobAudit SET EndTime, Status WHERE Stage = :stage AND EndTime IS NULL
log_job_end(a, stage, status, now) ==
    [i \in DOMAIN a |->
        IF a[i].Stage = stage /\ a[i].EndTime = NULL
        THEN [a[i] EXCEPT !.Status = status, !.EndTime = now]
        ELSE a[i]]

\* MERGE dbo.IncrementalTracker: insert the row or update its LastLoadTime
UpdateIncrementalTracker(t, stage, now) == [t EXCEPT ![stage] = now]

(***************************************************************************)
(* The load into the curated table                                         *)
(***************************************************************************)
TypeOfColumn(metadata, col) ==
    (CHOOSE m \in Range(metadata) : m.TargetColumnName = col).TargetDataType

\* whether the database converts the value to the column's type: a string
\* that is not an integer is rejected by an INT column
DbAccepts(c, dtype) ==
    ~(/\ dtype \in {"INT", "BIGINT"}
      /\ c.k = "str"
      /\ (c.s \notin NumericStrings \/ ~IsIntegral(ParseNumber(c.s))))

DbAcceptsAll(df, metadata) ==
    \A j \in DOMAIN df : \A c \in DOMAIN df[j] :
        DbAccepts(df[j][c], TypeOfColumn(metadata, c))

\* the value as the typed column stores it
DbStore(c, dtype) ==
    IF dtype \in {"INT", "BIGINT", "DECIMAL", "NUMERIC", "FLOAT", "REAL"}
    THEN ToNumeric(c)
    ELSE c

DbStoreAll(df, metadata) ==
    [j \in DOMAIN df |-> [c \in DOMAIN df[j] |->
                            DbStore(df[j][c], TypeOfColumn(metadata, c))]]

\* full_load: TRUNCATE in a transaction of its own, then the bulk append;
\* an exception is turned into an error record
FullLoadTable(t, df, metadata) ==
    IF DbAcceptsAll(df, metadata) THEN DbStoreAll(df, metadata) ELSE <<>>

FullLoadResult(df, metadata) ==
    IF DbAcceptsAll(df, metadata)
    THEN [status |-> "success", rows |-> Len(df)]
    ELSE [status |-> "error"]

\* t.[col] = s.[col] for the key columns of the staging MERGE
OnPk(t, srow, keys) ==
    \A c \in keys : ~IsNa(t[c]) /\ ~IsNa(srow[c]) /\ t[c] = srow[c]

\* incremental_load: the staging table, then MERGE on the key columns; the
\* statement fails with no key column, with a value the target column does
\* not take, or when a target row is matched by several staging rows
IncrementalRaises(t, df, metadata) ==
    \/ PkCols(metadata) = {}
    \/ ~DbAcceptsAll(df, metadata)
    \/ \E i \in DOMAIN t :
          Cardinality({j \in DOMAIN df :
              OnPk(t[i], DbStoreAll(df, metadata)[j], PkCols(metadata))}) > 1

\* an incremental_load whose MERGE inserts the matched staging rows as well
IncrementalTableInsertsAll(t, df, metadata) ==
    IF IncrementalRaises(t, df, metadata) THEN t
    ELSE LET s == DbStoreAll(df, metadata)
             keys == PkCols(metadata)
             hit(i) == {j \in DOMAIN s : OnPk(t[i], s[j], keys)}
             updated == [i \in DOMAIN t |->
                           IF hit(i) = {} THEN t[i]
                           ELSE [c \in DOMAIN t[i] |->
                                   IF c \in keys THEN t[i][c]
                                   ELSE s[CHOOSE j \in hit(i) : TRUE][c]]]
         IN  updated \o s

IncrementalTable(t, df, metadata) ==
    IF IncrementalRaises(t, df, metadata) THEN t
    ELSE LET s == DbStoreAll(df, metadata)
             keys == PkCols(metadata)
             hit(i) == {j \in DOMAIN s : OnPk(t[i], s[j], keys)}
             updated == [i \in DOMAIN t |->
                           IF hit(i) = {} THEN t[i]
                           ELSE [c \in DOMAIN t[i] |->
                                   IF c \in keys THEN t[i][c]
                                   ELSE s[CHOOSE j \in hit(i) : TRUE][c]]]
         IN  updated \o FilterRows(s, LAMBDA j :
                            ~\E i \in DOMAIN t : OnPk(t[i], s[j], keys))

IncrementalResult(t, df, metadata) ==
    IF IncrementalRaises(t, df, metadata)
    THEN [status |-> "error"]
    ELSE [status |-> "success", rows |-> Len(df)]

(***************************************************************************)
(* load_raw_to_curated: the stage handler, for a job whose Config and      *)
(* Metadata rows exist and whose curated table was created by the ddl      *)
(* stage.  It runs once on the source table chosen initially.              *)
(***************************************************************************)
load_raw_to_curated ==
    LET started == log_job_start(audit, "raw_to_curated")
        df == CurateBatch(src, meta, refs)
        res == IF df = <<>> THEN [status |-> "success", rows |-> 0]
               ELSE IF loadType = "full" THEN FullLoadResult(df, meta)
               ELSE IncrementalResult(curated, df, meta)
    IN  /\ lastOp = "none"
        /\ lastOp' = "load_raw_to_curated"
        /\ out' = df
        /\ curated' = IF df = <<>> THEN curated
                      ELSE IF loadType = "full" THEN FullLoadTable(curated, df, meta)
                      ELSE IncrementalTable(curated, df, meta)
        /\ tracker' = IF df # <<>> /\ loadType = "incremental"
                      THEN UpdateIncrementalTracker(tracker, "raw_curated", clock)
                      ELSE tracker
        /\ result' = res
        /\ audit' = log_job_end(started, "raw_to_curated", res.status, clock)
        /\ UNCHANGED <<hist, clock, tbl, lastBatch, lastPre, raised,
                       meta, loadType, refs, src, jobVars>>

\* the raw table: every column is text
MaxRaw == 3      \* rows of the raw table

RawKeys == {Str("nan"), Str("1"), Str("2")}
RawVals == {NaCell, Str("1"), Str("-1"), Str("1.5")}
RawRows == [key : RawKeys, val : RawVals]
RawTables == UNION {[1..n -> RawRows] : n \in 0..MaxRaw}

MetaRow(col, dtype, pk, nullable, fk, ref) ==
    [TargetColumnName |-> col, TargetDataType |-> dtype, IsPK |-> pk,
     IsNullable |-> nullable, IsFK |-> fk, ReferenceTable |-> ref]

CurateMetas ==
    {<<MetaRow("key", kt, 1, 0, 0, "None"), MetaRow("val", vt, 0, nn, 0, "None")>> :
        kt \in {"INT", "VARCHAR"}, vt \in {"INT", "DECIMAL", "VARCHAR"}, nn \in {0, 1}}

InitCurate ==
    /\ hist = <<>>
    /\ clock = 1
    /\ tbl = <<>>
    /\ lastOp = "none"
    /\ lastBatch = <<>>
    /\ lastPre = <<>>
    /\ raised = FALSE
    /\ meta \in CurateMetas
    /\ loadType \in {"full", "incremental"}
    /\ refs = <<>>
    /\ src \in RawTables
    /\ out = <<>>
    /\ curated = <<>>
    /\ result = [status |-> "none"]
    /\ audit = <<>>
    /\ tracker = [stage \in {"raw_curated"} |-> NULL]
    /\ JobIdle

NextCurate == load_raw_to_curated

SpecCurate == InitCurate /\ [][NextCurate]_vars

(***************************************************************************)
(* enforce_pk_fk on its own: a DataFrame after the casts, a key column and *)
(* two columns that may be foreign keys, and referenced tables that may be *)
(* unreadable.                                                             *)
(***************************************************************************)
MaxFkRows == 2   \* rows of the DataFrame given to enforce_pk_fk

FkRows == [key : {Num(10), Num(20)},
           fk1 : {NaCell, Num(10), Num(20)},
           fk2 : {NaCell, Num(10)}]
FkFrames == UNION {[1..n -> FkRows] : n \in 0..MaxFkRows}

ReferenceStates ==
    {[readable |-> FALSE, values |-> {}]} \cup
    {[readable |-> TRUE, values |-> v] : v \in {{}, {Num(10)}, {Num(10), NaCell}}}

EnforceMetas ==
    {<<MetaRow("key", "INT", 1, 0, 0, "None"),
       MetaRow("fk1", "INT", 0, 1, 1, "dept"),
       MetaRow("fk2", "INT", 0, 1, fk, ref)>> :
        fk \in {0, 1}, ref \in {"site", ""}}

enforce_pk_fk_call ==
    /\ lastOp = "none"
    /\ lastOp' = "enforce_pk_fk"
    /\ out' = enforce_pk_fk(src, meta, refs)
    /\ raised' = FALSE
    /\ UNCHANGED <<hist, clock, tbl, lastBatch, lastPre,
                   meta, loadType, refs, src, curated, result, audit, tracker,
                   jobVars>>

InitEnforce ==
    /\ hist = <<>>
    /\ clock = 1
    /\ tbl = <<>>
    /\ lastOp = "none"
    /\ lastBatch = <<>>
    /\ lastPre = <<>>
    /\ raised = FALSE
    /\ meta \in EnforceMetas
    /\ loadType = "full"
    /\ refs \in [{"dept", "site"} -> ReferenceStates]
    /\ src \in FkFrames
    /\ out = <<>>
    /\ curated = <<>>
    /\ result = [status |-> "none"]
    /\ audit = <<>>
    /\ tracker = [stage \in {"raw_curated"} |-> NULL]
    /\ JobIdle

NextEnforce == enforce_pk_fk_call

SpecEnforce == InitEnforce /\ [][NextEnforce]_vars

(***************************************************************************)
(* create_ddl.py: the ddl stage.  The job is named JOB_EMP_<layer>, so the *)
(* table name derived from the job name is <schema>_emp.  A column         *)
(* definition is kept as its parts: [col] type(len) constraint.            *)
(***************************************************************************)
VARLEN_TYPES == {"NVARCHAR", "VARCHAR"}

ALLOWED_TYPES ==
    VARLEN_TYPES \cup {"INT", "BIGINT", "DECIMAL", "NUMERIC", "FLOAT", "BIT",
                       "DATETIME", "DATE"}

\* int(x or d): None and 0 both give d
IntOr(x, d) == IF x = NULL THEN d ELSE x

ColumnDef(col, type, len, constraint) ==
    [ok |-> TRUE, col |-> col, type |-> type, len |-> len, constraint |-> constraint]

Raised(message) == [ok |-> FALSE, error |-> message]

\* a _build_column_def that checks the type and the length before it looks
\* at the schema
BuildColumnDefTypeFirst(meta_row, schema) ==
    LET col == meta_row.TargetColumnName
        dtype == meta_row.TargetDataType
        length == IntOr(meta_row.Length, 0)
    IN  IF dtype \notin ALLOWED_TYPES THEN Raised("Unsupported data type")
        ELSE IF dtype \in VARLEN_TYPES /\ length <= 0
        THEN Raised("requires positive Length")
        ELSE ColumnDef(col, "NVARCHAR", "MAX", "NULL")

\* a _build_column_def without the branch for the processed layer
BuildColumnDefPkAnyLayer(meta_row, schema) ==
    LET col == meta_row.TargetColumnName
        dtype == meta_row.TargetDataType
        length == IntOr(meta_row.Length, 0)
        len == IF dtype \in {"DECIMAL", "NUMERIC"} THEN "18,0"
               ELSE IF dtype \in VARLEN_TYPES THEN ToString(length)
               ELSE ""
        nullable == IF IntOr(meta_row.IsNullable, 1) = 1 THEN "NULL" ELSE "NOT NULL"
    IN  IF schema = "raw" THEN ColumnDef(col, "NVARCHAR", "MAX", "NULL")
        ELSE IF dtype \notin ALLOWED_TYPES THEN Raised("Unsupported data type")
        ELSE IF dtype \in VARLEN_TYPES /\ length <= 0
        THEN Raised("requires positive Length")
        ELSE IF IntOr(meta_row.IsPK, 0) = 1
        THEN ColumnDef(col, dtype, len, "PRIMARY KEY NOT NULL")
        ELSE ColumnDef(col, dtype, len, nullable)

_build_column_def(meta_row, schema) ==
    LET col == meta_row.TargetColumnName
        dtype == meta_row.TargetDataType
        length == IntOr(meta_row.Length, 0)
        len == IF dtype \in {"DECIMAL", "NUMERIC"} THEN "18,0"
               ELSE IF dtype \in VARLEN_TYPES THEN ToString(length)
               ELSE ""
        nullable == IF IntOr(meta_row.IsNullable, 1) = 1 THEN "NULL" ELSE "NOT NULL"
    IN  IF schema = "raw" THEN ColumnDef(col, "NVARCHAR", "MAX", "NULL")
        ELSE IF dtype \notin ALLOWED_TYPES THEN Raised("Unsupported data type")
        ELSE IF dtype \in VARLEN_TYPES /\ length <= 0
        THEN Raised("requires positive Length")
        ELSE IF schema = "curated" /\ IntOr(meta_row.IsPK, 0) = 1
        THEN ColumnDef(col, dtype, len, "PRIMARY KEY NOT NULL")
        ELSE IF schema = "processed" THEN ColumnDef(col, dtype, len, nullable)
        ELSE IF IntOr(meta_row.IsPK, 0) = 1
        THEN ColumnDef(col, dtype, len, "PRIMARY KEY NOT NULL")
        ELSE ColumnDef(col, dtype, len, nullable)

\* LOWER() of the names that occur
Lower(name) ==
    CASE name = "RAW_EMP" -> "raw_emp"
      [] name = "CURATED_EMP" -> "curated_emp"
      [] name = "PROCESSED_EMP" -> "processed_emp"
      [] OTHER -> name

\* _table_exists: schema and table compared in lower case
_table_exists(cat, schema, table) ==
    \E t \in cat : Lower(t.schema) = Lower(schema) /\ Lower(t.name) = Lower(table)

\* f"{schema.lower()}_{job_name.split('_')[1].lower()}" for a job JOB_EMP_...
DerivedTableName(schema) ==
    CASE schema = "raw" -> "raw_emp"
      [] schema = "curated" -> "curated_emp"
      [] schema = "processed" -> "processed_emp"

\* a _validate_primary_keys that checks the curated layer only
MultiplePrimaryKeysCuratedOnly(columns, schema) ==
    /\ schema = "curated"
    /\ Cardinality({columns[n].TargetColumnName :
                       n \in {x \in DOMAIN columns : IntOr(columns[x].IsPK, 0) = 1}}) > 1

\* _validate_primary_keys raises
MultiplePrimaryKeys(columns, schema) ==
    /\ schema # "raw"
    /\ Cardinality({columns[n].TargetColumnName :
                       n \in {x \in DOMAIN columns : IntOr(columns[x].IsPK, 0) = 1}}) > 1

\* the loop over the columns: duplicates are reported and skipped, a column
\* whose definition raises is reported and left out
BuildColumnDefs(columns, schema) ==
    LET key(n) == <<columns[n].TargetColumnName, columns[n].TargetDataType,
                    columns[n].Length>>
        Loop[n \in 0..Len(columns)] ==
            IF n = 0 THEN [col_defs |-> <<>>, ddl_errors |-> <<>>]
            ELSE LET prev == Loop[n - 1]
                     built == _build_column_def(columns[n], schema)
                 IN  IF \E n2 \in 1..(n - 1) : key(n2) = key(n)
                     THEN [prev EXCEPT !.ddl_errors = Append(@, "Duplicate column")]
                     ELSE IF built.ok
                     THEN [prev EXCEPT !.col_defs = Append(@, built)]
                     ELSE [prev EXCEPT !.ddl_errors = Append(@, built.error)]
    IN  Loop[Len(columns)]

\* the history columns of an SCD2 table of the processed layer
WithHistoryColumns(col_defs, schema, scd_type) ==
    IF schema = "processed" /\ scd_type = 2
    THEN <<ColumnDef("RowID", "INT IDENTITY", "1,1", "PRIMARY KEY")>>
         \o col_defs
         \o <<ColumnDef("StartTime", "DATETIME", "", "NOT NULL DEFAULT (GETDATE())"),
              ColumnDef("EndTime", "DATETIME", "", "NULL"),
              ColumnDef("IsCurrent", "BIT", "", "NOT NULL DEFAULT (1)")>>
    ELSE col_defs

\* the database rejects CREATE TABLE with no column, with a column name
\* twice or with two PRIMARY KEY constraints
CreateTableRaises(col_defs) ==
    \/ col_defs = <<>>
    \/ \E i, j \in DOMAIN col_defs :
          /\ i < j
          /\ \/ col_defs[i].col = col_defs[j].col
             \/ /\ col_defs[i].constraint \in {"PRIMARY KEY", "PRIMARY KEY NOT NULL"}
                /\ col_defs[j].constraint \in {"PRIMARY KEY", "PRIMARY KEY NOT NULL"}

\* create_target_tables: the catalog, the JobAudit rows and the returned
\* record after the call.  rows is the join of Metadata and Config.
create_target_tables(c, columns, cat, a, now) ==
    LET started == log_job_start(a, "ddl")
        Failed(cat2, errors) ==
            [catalog |-> cat2,
             audit |-> log_job_end(started, "ddl", "failed", now),
             result |-> [status |-> "error", errors |-> errors]]
        schema == c.TargetSchema
        table_name == DerivedTableName(schema)
        built == BuildColumnDefs(columns, schema)
        col_defs == WithHistoryColumns(built.col_defs, schema, c.SCDType)
        created == IF CreateTableRaises(col_defs) THEN cat
                   ELSE cat \cup {[schema |-> schema, name |-> table_name,
                                   cols |-> col_defs]}
        ddl_errors == IF CreateTableRaises(col_defs)
                      THEN Append(built.ddl_errors, "CREATE TABLE failed")
                      ELSE built.ddl_errors
    IN  IF c = NoConfig \/ columns = <<>>
        THEN Failed(cat, <<"No metadata/config found">>)
        ELSE IF c.SCDType = NULL
        THEN Failed(cat, <<"int() argument must be a number, not 'NoneType'">>)
        ELSE IF _table_exists(cat, schema, table_name)
        THEN [catalog |-> cat,
              audit |-> log_job_end(started, "ddl", "success", now),
              result |-> [status |-> "success"]]
        ELSE IF MultiplePrimaryKeys(columns, schema)
        THEN Failed(cat, <<"multiple PK columns">>)
        ELSE IF ddl_errors # <<>>
        THEN Failed(created, ddl_errors)
        ELSE [catalog |-> created,
              audit |-> log_job_end(started, "ddl", "success", now),
              result |-> [status |-> "success"]]

(***************************************************************************)
(* _build_column_def on one Metadata row                                   *)
(***************************************************************************)
MaxLength == 1   \* the largest Metadata.Length

DdlMetaRow(col, dtype, length, pk, nullable) ==
    [TargetColumnName |-> col, TargetDataType |-> dtype, Length |-> length,
     IsPK |-> pk, IsNullable |-> nullable, IsFK |-> 0, ReferenceTable |-> "None"]

ConfigRow(schema, loadtype, scd, source) ==
    [TargetSchema |-> schema, LoadType |-> loadtype, SCDType |-> scd,
     SourceTable |-> source]

Layers == {"raw", "curated", "processed"}

ColumnDefInputs ==
    {DdlMetaRow("a", dtype, length, pk, nullable) :
        dtype \in {"INT", "DECIMAL", "VARCHAR", "XML"},
        length \in -1..MaxLength, pk \in {0, 1}, nullable \in {0, 1}}

build_column_def_call ==
    /\ lastOp = "none"
    /\ lastOp' = "_build_column_def"
    /\ coldef' = _build_column_def(meta[1], cfg.TargetSchema)
    /\ UNCHANGED <<hist, clock, tbl, lastBatch, lastPre, raised, pipeVars,
                   cfg, catalog, events, called, pc, caller>>

InitColumnDef ==
    /\ hist = <<>>
    /\ clock = 1
    /\ tbl = <<>>
    /\ lastOp = "none"
    /\ lastBatch = <<>>
    /\ lastPre = <<>>
    /\ raised = FALSE
    /\ meta \in {<<m>> : m \in ColumnDefInputs}
    /\ loadType = "full"
    /\ refs = <<>>
    /\ src = <<>>
    /\ out = <<>>
    /\ curated = <<>>
    /\ result = [status |-> "none"]
    /\ audit = <<>>
    /\ tracker = [stage \in {"raw_curated"} |-> NULL]
    /\ cfg \in {ConfigRow(schema, "full", 1, "t") : schema \in Layers}
    /\ catalog = {}
    /\ coldef = [ok |-> FALSE, error |-> "none"]
    /\ events = <<>>
    /\ called = <<>>
    /\ pc = "idle"
    /\ caller = "main"

NextColumnDef == build_column_def_call

SpecColumnDef == InitColumnDef /\ [][NextColumnDef]_vars

(***************************************************************************)
(* create_target_tables on its own, called up to MaxDdlCalls times for one *)
(* job                                                                     *)
(***************************************************************************)
MaxCols == 2       \* Metadata rows of the job
MaxDdlCalls == 2   \* calls of create_target_tables

DdlColumnInputs ==
    {DdlMetaRow(col, kind[1], kind[2], pk, 1) :
        col \in {"a", "b"},
        kind \in {<<"INT", 0>>, <<"XML", 0>>, <<"VARCHAR", 0>>, <<"VARCHAR", MaxLength>>},
        pk \in {0, 1}}

DdlMetas == UNION {[1..n -> DdlColumnInputs] : n \in 0..MaxCols}

DdlConfigs == {ConfigRow(schema, "full", scd, "t") : schema \in Layers, scd \in {NULL, 1, 2}}

\* a table of the job that exists already, under the derived name or under
\* the same name in upper case
ExistingTables(schema) ==
    {[schema |-> schema, name |-> n, cols |-> <<ColumnDef("a", "INT", "", "NULL")>>] :
        n \in {t \in {"raw_emp", "curated_emp", "processed_emp",
                      "RAW_EMP", "CURATED_EMP", "PROCESSED_EMP"} :
                  Lower(t) = DerivedTableName(schema)}}

create_target_tables_call ==
    LET after == create_target_tables(cfg, meta, catalog, audit, clock)
    IN  /\ Len(audit) < MaxDdlCalls
        /\ lastOp' = "create_target_tables"
        /\ lastPre' = catalog
        /\ catalog' = after.catalog
        /\ audit' = after.audit
        /\ result' = after.result
        /\ UNCHANGED <<hist, clock, tbl, lastBatch, raised, meta, loadType, refs,
                       src, out, curated, tracker, cfg, coldef, events, called, pc,
                       caller>>

InitDdl ==
    /\ hist = <<>>
    /\ clock = 1
    /\ tbl = <<>>
    /\ lastOp = "none"
    /\ lastBatch = <<>>
    /\ lastPre = <<>>
    /\ raised = FALSE
    /\ meta \in DdlMetas
    /\ loadType = "full"
    /\ refs = <<>>
    /\ src = <<>>
    /\ out = <<>>
    /\ curated = <<>>
    /\ result = [status |-> "none"]
    /\ audit = <<>>
    /\ tracker = [stage \in {"raw_curated"} |-> NULL]
    /\ cfg \in DdlConfigs
    /\ catalog \in {{}} \cup {{t} : t \in ExistingTables(cfg.TargetSchema)}
    /\ coldef = [ok |-> FALSE, error |-> "none"]
    /\ events = <<>>
    /\ called = <<>>
    /\ pc = "idle"
    /\ caller = "main"

NextDdl == create_target_tables_call

SpecDdl == InitDdl /\ [][NextDdl]_vars

(***************************************************************************)
(* The stage handlers as run_job sees them: the record they return, the    *)
(* JobAudit rows and the IncrementalTracker rows they leave.  What the     *)
(* source data and the database do is the argument env:                    *)
(*   "empty"     there is nothing to load                                  *)
(*   "loaded"    the rows are read and the load goes through               *)
(*   "rejected"  the rows are read and the database rejects the load       *)
(*   "raises"    reading or converting the source raises                   *)
(* The Config and Metadata rows of the job exist, and Config.TargetTable   *)
(* is the table the ddl stage created.                                     *)
(***************************************************************************)
StageEnvs == {"empty", "loaded", "rejected", "raises"}

HandlerReturn(res, a, t) == [result |-> res, audit |-> a, tracker |-> t]

\* the except branch of a handler: the row is closed as failed
HandlerExcept(started, stage, t, now) ==
    HandlerReturn([status |-> "error"], log_job_end(started, stage, "failed", now), t)

\* the end of a handler: the row is closed with the status of the result
HandlerEnd(started, stage, res, t, now) ==
    HandlerReturn(res, log_job_end(started, stage, res.status, now), t)

load_source_to_raw(c, a, t, now, env) ==
    LET stage == "source_to_raw"
        started == log_job_start(a, stage)
        done == [status |-> "success"]
    IN  IF env \in {"raises", "rejected"} THEN HandlerExcept(started, stage, t, now)
        ELSE IF c.LoadType = "full"
        THEN \* _insert_raw raises on an empty DataFrame
             IF env = "empty" THEN HandlerExcept(started, stage, t, now)
             ELSE HandlerEnd(started, stage, done, t, now)
        ELSE \* incremental: no new files, or the new files are loaded
             IF env = "empty" THEN HandlerEnd(started, stage, done, t, now)
             ELSE HandlerEnd(started, stage, done,
                             UpdateIncrementalTracker(t, "source_raw", now), now)

\* a load_raw_to_curated that updates the tracker after a full load as well
LoadRawToCuratedTracksFull(c, a, t, now, env) ==
    LET stage == "raw_to_curated"
        started == log_job_start(a, stage)
        res == IF env = "rejected" THEN [status |-> "error"] ELSE [status |-> "success"]
    IN  IF env = "raises" THEN HandlerExcept(started, stage, t, now)
        ELSE IF env = "empty"
        THEN HandlerReturn([status |-> "success"],
                           log_job_end(started, stage, "success", now), t)
        ELSE HandlerEnd(started, stage, res,
                        UpdateIncrementalTracker(t, "raw_curated", now), now)

load_raw_to_curated_stage(c, a, t, now, env) ==
    LET stage == "raw_to_curated"
        started == log_job_start(a, stage)
        \* full_load and incremental_load return an error record, they do not raise
        res == IF env = "rejected" THEN [status |-> "error"] ELSE [status |-> "success"]
    IN  IF env = "raises" THEN HandlerExcept(started, stage, t, now)
        ELSE IF env = "empty"
        THEN HandlerReturn([status |-> "success"],
                           log_job_end(started, stage, "success", now), t)
        ELSE IF c.LoadType = "full" THEN HandlerEnd(started, stage, res, t, now)
        ELSE HandlerEnd(started, stage, res,
                        UpdateIncrementalTracker(t, "raw_curated", now), now)

load_curated_to_processed(c, a, t, now, env) ==
    LET stage == "curated_to_processed"
        started == log_job_start(a, stage)
        res == IF env = "rejected" THEN [status |-> "error"] ELSE [status |-> "success"]
    IN  IF c.SCDType = NULL \/ env = "raises" THEN HandlerExcept(started, stage, t, now)
        ELSE IF env = "empty"
        THEN HandlerReturn([status |-> "success"],
                           log_job_end(started, stage, "success", now), t)
        ELSE IF c.LoadType = "full" THEN HandlerEnd(started, stage, res, t, now)
        ELSE \* scd1_merge and scd2_merge raise when the database rejects the
             \* merge; incremental_load returns an error record
             IF c.SCDType \in {1, 2} /\ env = "rejected"
             THEN HandlerExcept(started, stage, t, now)
             ELSE HandlerEnd(started, stage, res,
                             UpdateIncrementalTracker(t, "curated_processed", now), now)

\* the load function load_curated_to_processed hands the rows to, or the
\* reason why it hands them to none
ScdDispatch(c, env) ==
    IF c.SCDType = NULL THEN "TypeError"
    ELSE IF env = "raises" THEN "read failed"
    ELSE IF env = "empty" THEN "no rows"
    ELSE IF c.LoadType = "full" THEN "full_load"
    ELSE IF c.SCDType = 1 THEN "scd1_merge"
    ELSE IF c.SCDType = 2 THEN "scd2_merge"
    ELSE "incremental_load"

(***************************************************************************)
(* run_job: a generator.  pc is the yield it is suspended at; an action    *)
(* runs it from one yield to the next, or to its end.  The caller takes    *)
(* every event ("drain") or leaves its loop at the first error event       *)
(* ("main"); the generator it leaves behind runs no further statement.     *)
(***************************************************************************)
MaxRuns == 2     \* invocations of run_job

Event(step, status) == [step |-> step, status |-> status]

Runs == Cardinality({i \in DOMAIN events : events[i] = Event("init", "running")})

StageName(schema) ==
    CASE schema = "raw" -> "source_to_raw"
      [] schema = "curated" -> "raw_to_curated"
      [] schema = "processed" -> "curated_to_processed"

HandlerName(schema) ==
    CASE schema = "raw" -> "load_source_to_raw"
      [] schema = "curated" -> "load_raw_to_curated"
      [] schema = "processed" -> "load_curated_to_processed"

\* a branch that raises ValueError for a raw job too
MissingSourceAnyLayer(c) == c.SourceTable = ""

\* the curated and the processed branch raise ValueError before the handler
\* when SourceTable is None or empty
MissingSource(c) == c.TargetSchema # "raw" /\ c.SourceTable = ""

CallHandler(c, a, t, now, env) ==
    CASE c.TargetSchema = "raw" -> load_source_to_raw(c, a, t, now, env)
      [] c.TargetSchema = "curated" -> load_raw_to_curated_stage(c, a, t, now, env)
      [] c.TargetSchema = "processed" -> load_curated_to_processed(c, a, t, now, env)

ErrorYields == {"init_error", "ddl_error", "ddl_exception", "stage_error",
                "stage_exception"}

\* what no action of run_job changes
jobFrame == <<hist, clock, tbl, lastBatch, lastPre, raised, meta, loadType, refs,
              src, out, curated, cfg, coldef, caller>>

\* the caller takes the next event, unless it has left its loop
Resumes == caller = "drain" \/ pc \notin ErrorYields

\* run_job(engine, job_name) up to its first yield
run_job ==
    /\ pc = "idle"
    /\ Runs < MaxRuns
    /\ lastOp' = "run_job"
    /\ audit' = log_job_start(audit, "init")
    /\ events' = Append(events, Event("init", "running"))
    /\ called' = <<>>
    /\ pc' = "init"
    /\ UNCHANGED <<jobFrame, result, tracker, catalog>>

\* from the init event: the Config lookup and the ddl stage
run_job_ddl ==
    LET after == create_target_tables(cfg, meta, catalog, audit, clock)
    IN  /\ pc = "init"
        /\ lastOp' = "run_job_ddl"
        /\ IF cfg = NoConfig
           THEN /\ events' = Append(events, Event("init", "error"))
                /\ pc' = "init_error"
                /\ UNCHANGED <<audit, catalog, result>>
           ELSE /\ catalog' = after.catalog
                /\ audit' = after.audit
                /\ result' = after.result
                /\ IF after.result.status = "error"
                   THEN /\ events' = Append(events, Event("ddl", "error"))
                        /\ pc' = "ddl_error"
                   ELSE /\ events' = Append(events, Event("ddl", "done"))
                        /\ pc' = "ddl_done"
        /\ UNCHANGED <<jobFrame, tracker, called>>

\* from the error event of a missing Config row
run_job_no_config ==
    /\ pc = "init_error"
    /\ Resumes
    /\ lastOp' = "run_job_no_config"
    /\ audit' = log_job_end(audit, "init", "failed", clock)
    /\ pc' = "idle"
    /\ UNCHANGED <<jobFrame, result, tracker, catalog, events, called>>

\* from the ddl error event: log_job_end is given the list of errors as its
\* message, the driver refuses a list as a bound parameter, and the
\* exception is caught by the except clause of the same try
run_job_ddl_error ==
    /\ pc = "ddl_error"
    /\ Resumes
    /\ lastOp' = "run_job_ddl_error"
    /\ events' = Append(events, Event("ddl", "error"))
    /\ pc' = "ddl_exception"
    /\ UNCHANGED <<jobFrame, result, tracker, catalog, audit, called>>

\* from the event of the except clause of the ddl stage
run_job_ddl_exception ==
    /\ pc = "ddl_exception"
    /\ Resumes
    /\ lastOp' = "run_job_ddl_exception"
    /\ audit' = log_job_end(audit, "ddl", "failed", clock)
    /\ pc' = "idle"
    /\ UNCHANGED <<jobFrame, result, tracker, catalog, events, called>>

\* from the ddl done event: the branch on TargetSchema and the stage handler
run_job_stage ==
    LET stage == StageName(cfg.TargetSchema)
        closed == log_job_end(audit, "ddl", "success", clock)
    IN  /\ pc = "ddl_done"
        /\ lastOp' = "run_job_stage"
        /\ IF MissingSource(cfg)
           THEN /\ events' = Append(events, Event(stage, "error"))
                /\ pc' = "stage_exception"
                /\ audit' = closed
                /\ UNCHANGED <<result, tracker, called>>
           ELSE \E env \in StageEnvs :
                   LET ret == CallHandler(cfg, closed, tracker, clock, env)
                   IN  /\ called' = Append(called, HandlerName(cfg.TargetSchema))
                       /\ audit' = ret.audit
                       /\ tracker' = ret.tracker
                       /\ result' = ret.result
                       /\ IF ret.result.status = "error"
                          THEN /\ events' = Append(events, Event(stage, "error"))
                               /\ pc' = "stage_error"
                          ELSE /\ events' = Append(events, Event(stage, "done"))
                               /\ pc' = "stage_done"
        /\ UNCHANGED <<jobFrame, catalog>>

\* a run_job without the return after the error event of a handler
RunJobStageErrorFallsThrough ==
    /\ pc = "stage_error"
    /\ Resumes
    /\ lastOp' = "run_job_stage_error"
    /\ audit' = log_job_end(audit, StageName(cfg.TargetSchema), "failed", clock)
    /\ pc' = "stage_done"
    /\ UNCHANGED <<jobFrame, result, tracker, catalog, events, called>>

\* from the error event of a handler that returned status error
run_job_stage_error ==
    /\ pc = "stage_error"
    /\ Resumes
    /\ lastOp' = "run_job_stage_error"
    /\ audit' = log_job_end(audit, StageName(cfg.TargetSchema), "failed", clock)
    /\ pc' = "idle"
    /\ UNCHANGED <<jobFrame, result, tracker, catalog, events, called>>

\* from the event of the except clause of the branch
run_job_stage_exception ==
    /\ pc = "stage_exception"
    /\ Resumes
    /\ lastOp' = "run_job_stage_exception"
    /\ audit' = log_job_end(audit, StageName(cfg.TargetSchema), "failed", clock)
    /\ pc' = "idle"
    /\ UNCHANGED <<jobFrame, result, tracker, catalog, events, called>>

\* from the done event of the handler to the finalize event
run_job_finalize ==
    /\ pc = "stage_done"
    /\ lastOp' = "run_job_finalize"
    /\ audit' = log_job_end(log_job_end(audit, StageName(cfg.TargetSchema),
                                        "success", clock),
                            "finalize", "success", clock)
    /\ events' = Append(events, Event("finalize", "done"))
    /\ pc' = "finalize"
    /\ UNCHANGED <<jobFrame, result, tracker, catalog, called>>

\* from the finalize event to the end of the generator
run_job_end ==
    /\ pc = "finalize"
    /\ lastOp' = "run_job_end"
    /\ pc' = "idle"
    /\ UNCHANGED <<jobFrame, result, tracker, catalog, audit, events, called>>

\* the caller leaves its loop at an error event and drops the generator
caller_returns ==
    /\ pc \in ErrorYields
    /\ caller = "main"
    /\ lastOp' = "caller_returns"
    /\ pc' = "idle"
    /\ UNCHANGED <<jobFrame, result, tracker, catalog, audit, events, called>>

JobConfigs ==
    {ConfigRow(schema, lt, scd, source) :
        schema \in Layers, lt \in {"full", "incremental"}, scd \in {NULL, 1, 2},
        source \in {"", "t"}}

\* Metadata of the employee job: EmpId INT, key, not null; Name VARCHAR(50)
EmpMeta == <<DdlMetaRow("EmpId", "INT", 0, 1, 0), DdlMetaRow("Name", "VARCHAR", 50, 0, 1)>>

\* Metadata that holds the row (b, INT, 0) twice
DuplicateMeta ==
    <<DdlMetaRow("a", "INT", 0, 1, 1), DdlMetaRow("b", "INT", 0, 0, 1),
      DdlMetaRow("b", "INT", 0, 0, 1)>>

JobMetas ==
    {<<DdlMetaRow("a", "INT", 0, 1, 1)>>, <<DdlMetaRow("a", "XML", 0, 0, 1)>>, EmpMeta,
     DuplicateMeta}

TrackerStages == {"source_raw", "raw_curated", "curated_processed"}

InitJob ==
    /\ hist = <<>>
    /\ clock = 2
    /\ tbl = <<>>
    /\ lastOp = "none"
    /\ lastBatch = <<>>
    /\ lastPre = <<>>
    /\ raised = FALSE
    /\ cfg \in JobConfigs \cup {NoConfig}
    /\ meta \in IF cfg = NoConfig THEN {<<>>} ELSE JobMetas
    /\ loadType = "full"
    /\ refs = <<>>
    /\ src = <<>>
    /\ out = <<>>
    /\ curated = <<>>
    /\ result = [status |-> "none"]
    /\ audit = <<>>
    /\ tracker \in {[stage \in TrackerStages |-> last] : last \in {NULL, clock - 1}}
    /\ catalog \in IF cfg = NoConfig THEN {{}}
                   ELSE {{}} \cup {{t} : t \in ExistingTables(cfg.TargetSchema)}
    /\ coldef = [ok |-> FALSE, error |-> "none"]
    /\ events = <<>>
    /\ called = <<>>
    /\ pc = "idle"
    /\ caller \in {"main", "drain"}

NextJob ==
    \/ run_job
    \/ run_job_ddl
    \/ run_job_no_config
    \/ run_job_ddl_error
    \/ run_job_ddl_exception
    \/ run_job_stage
    \/ run_job_stage_error
    \/ run_job_stage_exception
    \/ run_job_finalize
    \/ run_job_end
    \/ caller_returns

SpecJob == InitJob /\ [][NextJob]_vars

(***************************************************************************)
(* load_curated_to_processed on its own, called up to MaxHandlerCalls      *)
(* times for one job of the processed layer                                *)
(***************************************************************************)
MaxHandlerCalls == 2   \* calls of load_curated_to_processed
OtherScdType == 3      \* an SCDType that is neither 1 nor 2

ProcessedConfigs ==
    {ConfigRow("processed", lt, scd, "t") :
        lt \in {"full", "incremental"}, scd \in {NULL, 1, 2, OtherScdType}}

load_curated_to_processed_call ==
    /\ Len(audit) < MaxHandlerCalls
    /\ \E env \in StageEnvs :
          LET ret == load_curated_to_processed(cfg, audit, tracker, clock, env)
          IN  /\ lastOp' = ScdDispatch(cfg, env)
              /\ audit' = ret.audit
              /\ tracker' = ret.tracker
              /\ result' = ret.result
    /\ UNCHANGED <<hist, clock, tbl, lastBatch, lastPre, raised, meta, loadType, refs,
                   src, out, curated, jobVars>>

InitProcessed ==
    /\ hist = <<>>
    /\ clock = 2
    /\ tbl = <<>>
    /\ lastOp = "none"
    /\ lastBatch = <<>>
    /\ lastPre = <<>>
    /\ raised = FALSE
    /\ meta \in JobMetas
    /\ loadType = "full"
    /\ refs = <<>>
    /\ src = <<>>
    /\ out = <<>>
    /\ curated = <<>>
    /\ result = [status |-> "none"]
    /\ audit = <<>>
    /\ tracker \in {[stage \in TrackerStages |-> last] : last \in {NULL, clock - 1}}
    /\ cfg \in ProcessedConfigs
    /\ catalog = {}
    /\ coldef = [ok |-> FALSE, error |-> "none"]
    /\ events = <<>>
    /\ called = <<>>
    /\ pc = "idle"
    /\ caller = "main"

NextProcessed == load_curated_to_processed_call

SpecProcessed == InitProcessed /\ [][NextProcessed]_vars

(***************************************************************************)
(* full_load and incremental_load on their own: the target table holds     *)
(* rows already, the DataFrame out is loaded into it up to MaxLoads times. *)
(* The table has the columns key INT (the key column) and val INT.         *)
(***************************************************************************)
MaxLoads == 2        \* calls of a load function
MaxTargetRows == 2   \* rows of the target table before the first load
MaxLoadRows == 2     \* rows of the DataFrame

LoadMeta == <<MetaRow("key", "INT", 1, 0, 0, "None"), MetaRow("val", "INT", 0, 1, 0, "None")>>

TargetRows == [key : {Num(10), Num(20)}, val : {NaCell, Num(10), Num(20)}]

\* the target tables: no two rows with the same key
TargetTables ==
    {t \in UNION {[1..n -> TargetRows] : n \in 0..MaxTargetRows} :
        \A i, j \in DOMAIN t : i # j => t[i].key # t[j].key}

\* the DataFrames: a val that could not be cast is still a string
LoadRows == [key : {NaCell, Num(10), Num(20)}, val : {NaCell, Num(10), Num(20), Str("1.5")}]
LoadFrames == UNION {[1..n -> LoadRows] : n \in 0..MaxLoadRows}

full_load_call ==
    /\ clock <= MaxLoads
    /\ clock' = clock + 1
    /\ lastOp' = "full_load"
    /\ lastBatch' = out
    /\ lastPre' = curated
    /\ curated' = FullLoadTable(curated, out, meta)
    /\ result' = FullLoadResult(out, meta)
    /\ UNCHANGED <<hist, tbl, raised, meta, loadType, refs, src, out, audit,
                   tracker, jobVars>>

incremental_load_call ==
    /\ clock <= MaxLoads
    /\ clock' = clock + 1
    /\ lastOp' = "incremental_load"
    /\ lastBatch' = out
    /\ lastPre' = curated
    /\ curated' = IncrementalTable(curated, out, meta)
    /\ result' = IncrementalResult(curated, out, meta)
    /\ UNCHANGED <<hist, tbl, raised, meta, loadType, refs, src, out, audit,
                   tracker, jobVars>>

InitLoad ==
    /\ hist = <<>>
    /\ clock = 1
    /\ tbl = <<>>
    /\ lastOp = "none"
    /\ lastBatch = <<>>
    /\ lastPre = <<>>
    /\ raised = FALSE
    /\ meta = LoadMeta
    /\ loadType = "full"
    /\ refs = <<>>
    /\ src = <<>>
    /\ out \in LoadFrames
    /\ curated \in TargetTables
    /\ result = [status |-> "none"]
    /\ audit = <<>>
    /\ tracker = [stage \in {"raw_curated"} |-> NULL]
    /\ JobIdle

NextLoad ==
    \/ full_load_call
    \/ incremental_load_call

SpecLoad == InitLoad /\ [][NextLoad]_vars

(***************************************************************************)
(* The IncrementalTracker table as rows [Stage, LastLoadTime] of the job,  *)
(* and the incremental branch of load_source_to_raw that reads and writes  *)
(* it.  Dates are day numbers; Epoch1900 is datetime(1900, 1, 1), so a     *)
(* smaller number is a date before 1900.  A source file carries the date   *)
(* of its name, NULL when the name holds none.                             *)
(***************************************************************************)
Epoch1900 == 2
MaxDate == 3         \* the latest date
MaxFiles == 2        \* files under SourcePath
MaxTrackerOps == 3   \* reads, writes and runs in a row

Dates == 1..MaxDate

\* SELECT LastLoadTime ... WHERE Stage = :stage; .first(); None without a row
_get_incremental_tracker(rows, stage) ==
    IF \E i \in DOMAIN rows : rows[i].Stage = stage
    THEN rows[CHOOSE i \in DOMAIN rows :
                 /\ rows[i].Stage = stage
                 /\ \A j \in DOMAIN rows : rows[j].Stage = stage => i <= j].LastLoadTime
    ELSE NULL

\* MERGE ... WHEN MATCHED THEN UPDATE ... WHEN NOT MATCHED THEN INSERT
_update_incremental_tracker(rows, stage, new_value) ==
    IF \E i \in DOMAIN rows : rows[i].Stage = stage
    THEN [i \in DOMAIN rows |->
            IF rows[i].Stage = stage THEN [rows[i] EXCEPT !.LastLoadTime = new_value]
            ELSE rows[i]]
    ELSE Append(rows, [Stage |-> stage, LastLoadTime |-> new_value])

\* a watermark that defaults to the earliest date there is
LastLoadTimeOrEarliest(rows) ==
    IF _get_incremental_tracker(rows, "source_raw") = NULL THEN 0
    ELSE _get_incremental_tracker(rows, "source_raw")

\* _get_incremental_tracker(...) or datetime(1900, 1, 1)
LastLoadTimeOr1900(rows) ==
    IF _get_incremental_tracker(rows, "source_raw") = NULL THEN Epoch1900
    ELSE _get_incremental_tracker(rows, "source_raw")

\* new files that include those dated on the day of the watermark
NewFilesFromWatermarkOn(files, last_load_time) ==
    {f \in DOMAIN files : files[f].date # NULL /\ files[f].date >= last_load_time}

\* the files whose name holds a date after the watermark
NewFiles(files, last_load_time) ==
    {f \in DOMAIN files : files[f].date # NULL /\ files[f].date > last_load_time}

MaxFileDate(files, new_files) ==
    CHOOSE d \in {files[f].date : f \in new_files} :
        \A f \in new_files : files[f].date <= d

SourceFiles == UNION {[1..n -> [date : Dates \cup {NULL}]] : n \in 0..MaxFiles}

WrittenStages == {"source_raw", "raw_curated"}

update_incremental_tracker_call ==
    /\ clock <= MaxTrackerOps
    /\ clock' = clock + 1
    /\ \E stage \in WrittenStages, new_value \in Dates :
          /\ lastOp' = "_update_incremental_tracker"
          /\ lastBatch' = <<stage, new_value>>
          /\ lastPre' = tracker
          /\ tracker' = _update_incremental_tracker(tracker, stage, new_value)
    /\ UNCHANGED <<hist, tbl, raised, meta, loadType, refs, src, out, curated,
                   result, audit, jobVars>>

get_incremental_tracker_call ==
    /\ clock <= MaxTrackerOps
    /\ clock' = clock + 1
    /\ \E stage \in WrittenStages :
          /\ lastOp' = "_get_incremental_tracker"
          /\ lastBatch' = <<stage>>
          /\ lastPre' = tracker
          /\ result' = [value |-> _get_incremental_tracker(tracker, stage)]
    /\ UNCHANGED <<hist, tbl, raised, meta, loadType, refs, src, out, curated,
                   tracker, audit, jobVars>>

\* the incremental branch of load_source_to_raw; reading or inserting the
\* new files may raise
source_raw_incremental ==
    LET new_files == NewFiles(src, LastLoadTimeOr1900(tracker))
    IN  /\ clock <= MaxTrackerOps
        /\ clock' = clock + 1
        /\ lastOp' = "load_source_to_raw"
        /\ lastBatch' = <<"source_raw">>
        /\ lastPre' = tracker
        /\ out' = new_files
        /\ \E loaded \in BOOLEAN :
              IF new_files = {}
              THEN /\ result' = [status |-> "success", rows |-> 0]
                   /\ tracker' = tracker
              ELSE IF loaded
              THEN /\ result' = [status |-> "success", rows |-> Cardinality(new_files)]
                   /\ tracker' = _update_incremental_tracker(
                                     tracker, "source_raw", MaxFileDate(src, new_files))
              ELSE /\ result' = [status |-> "error"]
                   /\ tracker' = tracker
        /\ UNCHANGED <<hist, tbl, raised, meta, loadType, refs, src, curated,
                       audit, jobVars>>

InitTracker ==
    /\ hist = <<>>
    /\ clock = 1
    /\ tbl = <<>>
    /\ lastOp = "none"
    /\ lastBatch = <<>>
    /\ lastPre = <<>>
    /\ raised = FALSE
    /\ meta = <<>>
    /\ loadType = "incremental"
    /\ refs = <<>>
    /\ src \in SourceFiles
    /\ out = {}
    /\ curated = <<>>
    /\ result = [status |-> "none"]
    /\ audit = <<>>
    /\ tracker = <<>>
    /\ JobIdle

NextTracker ==
    \/ update_incremental_tracker_call
    \/ get_incremental_tracker_call
    \/ source_raw_incremental

SpecTracker == InitTracker /\ [][NextTracker]_vars

(***************************************************************************)
(* The IncrementalTracker accesses of one execution of a stage handler,    *)
(* in program order: "get" is a call of _get_incremental_tracker, "update" *)
(* a call of _update_incremental_tracker for the stage of the handler.     *)
(***************************************************************************)
\* load_source_to_raw: the incremental branch reads the watermark first and
\* writes it after _insert_raw; process_files and _insert_raw raise after
\* the read
SourceRawAccesses(c, env) ==
    IF c.LoadType = "full" THEN <<>>
    ELSE IF env = "loaded" THEN <<"get", "update">>
    ELSE <<"get">>

\* load_raw_to_curated: no read; incremental_load writes after its MERGE and
\* the handler writes again after incremental_load has returned
RawCuratedAccesses(c, env) ==
    IF c.LoadType = "full" \/ env \in {"raises", "empty"} THEN <<>>
    ELSE IF env = "loaded" THEN <<"update", "update">>
    ELSE <<"update">>

\* load_curated_to_processed: no read; one write after scd1_merge or
\* scd2_merge, and the write of incremental_load before it for another SCDType
CuratedProcessedAccesses(c, env) ==
    IF c.SCDType = NULL \/ c.LoadType = "full" \/ env \in {"raises", "empty"} THEN <<>>
    ELSE IF c.SCDType \in {1, 2}
    THEN IF env = "loaded" THEN <<"update">> ELSE <<>>
    ELSE IF env = "loaded" THEN <<"update", "update">> ELSE <<"update">>

TrackerAccesses(c, env) ==
    CASE c.TargetSchema = "raw" -> SourceRawAccesses(c, env)
      [] c.TargetSchema = "curated" -> RawCuratedAccesses(c, env)
      [] c.TargetSchema = "processed" -> CuratedProcessedAccesses(c, env)

MaxStageCalls == 2   \* executions of the stage handler of one job

StageConfigs ==
    {ConfigRow(schema, lt, scd, "t") :
        schema \in Layers, lt \in {"full", "incremental"},
        scd \in {NULL, 1, 2, OtherScdType}}

\* one execution of the handler of the job's layer
stage_execution ==
    /\ Len(called) < MaxStageCalls
    /\ \E env \in StageEnvs :
          LET ret == CallHandler(cfg, audit, tracker, clock, env)
          IN  /\ lastOp' = HandlerName(cfg.TargetSchema)
              /\ lastBatch' = TrackerAccesses(cfg, env)
              /\ lastPre' = tracker
              /\ called' = Append(called, env)
              /\ audit' = ret.audit
              /\ tracker' = ret.tracker
              /\ result' = ret.result
    /\ UNCHANGED <<hist, clock, tbl, raised, meta, loadType, refs, src, out, curated,
                   cfg, catalog, coldef, events, pc, caller>>

InitStage ==
    /\ hist = <<>>
    /\ clock = 2
    /\ tbl = <<>>
    /\ lastOp = "none"
    /\ lastBatch = <<>>
    /\ lastPre = <<>>
    /\ raised = FALSE
    /\ meta = EmpMeta
    /\ loadType = "full"
    /\ refs = <<>>
    /\ src = <<>>
    /\ out = <<>>
    /\ curated = <<>>
    /\ result = [status |-> "none"]
    /\ audit = <<>>
    /\ tracker \in {[stage \in TrackerStages |-> last] : last \in {NULL, clock - 1}}
    /\ cfg \in StageConfigs
    /\ catalog = {}
    /\ coldef = [ok |-> FALSE, error |-> "none"]
    /\ events = <<>>
    /\ called = <<>>
    /\ pc = "idle"
    /\ caller = "main"

NextStage == stage_execution

SpecStage == InitStage /\ [][NextStage]_vars

(***************************************************************************)
(* The table of a job: the name create_target_tables derives for it and    *)
(* the name Config.TargetTable the stage handlers use.  A JobName is the   *)
(* sequence of its segments between underscores.                           *)
(***************************************************************************)
MaxTargetRuns == 2   \* runs of the ddl stage and the handler for one job

\* .lower() of the JobName segments that occur
LowerSegment(seg) ==
    CASE seg = "EMP" -> "emp"
      [] seg = "EMPLOYEE" -> "employee"
      [] OTHER -> seg

\* job_name.split('_')[1] raises IndexError for a JobName of one segment
TableNameRaises(schema, job_name) == schema \in Layers /\ Len(job_name) < 2

\* the table name create_target_tables creates or verifies
table_name(schema, job_name, table) ==
    IF schema \in Layers THEN schema \o "_" \o LowerSegment(job_name[2]) ELSE table

JobNames == {<<"JOB", "EMP", "LOAD">>, <<"JOB", "EMPLOYEE">>, <<"JOB">>}

TargetConfigs ==
    {[JobName |-> j, TargetSchema |-> schema, TargetTable |-> schema \o "_" \o t] :
        j \in JobNames, schema \in Layers \cup {"dbo"}, t \in {"emp", "employee"}}

TableOf(schema, name) ==
    [schema |-> schema, name |-> name, cols |-> <<ColumnDef("a", "INT", "", "NULL")>>]

\* the ddl stage of run_job: the derived table is verified, or created
ddl_stage ==
    LET schema == cfg.TargetSchema
        name == table_name(schema, cfg.JobName, cfg.TargetTable)
    IN  /\ lastOp \in {"none", "stage_handler"}
        /\ clock < MaxTargetRuns
        /\ clock' = clock + 1
        /\ lastOp' = "create_target_tables"
        /\ IF TableNameRaises(schema, cfg.JobName)
           THEN /\ result' = [status |-> "error"]
                /\ lastBatch' = <<>>
                /\ UNCHANGED catalog
           ELSE /\ result' = [status |-> "success"]
                /\ lastBatch' = <<schema, name>>
                /\ catalog' = IF _table_exists(catalog, schema, name) THEN catalog
                              ELSE catalog \cup {TableOf(schema, name)}
        /\ UNCHANGED <<hist, tbl, lastPre, raised, meta, loadType, refs, src, out,
                       curated, audit, tracker, cfg, coldef, events, called, pc, caller>>

\* the stage handler after a successful ddl stage: it looks for
\* Config.TargetTable, calls create_target_tables when it is missing (which
\* finds the derived table), and truncates, merges into or inserts into
\* Config.TargetTable, which fails when that table does not exist
stage_handler ==
    LET schema == cfg.TargetSchema
    IN  /\ lastOp = "create_target_tables"
        /\ result.status = "success"
        /\ schema \in Layers
        /\ lastOp' = "stage_handler"
        /\ lastBatch' = <<schema, cfg.TargetTable>>
        /\ result' = IF _table_exists(catalog, schema, cfg.TargetTable)
                     THEN [status |-> "success"] ELSE [status |-> "error"]
        /\ UNCHANGED <<hist, clock, tbl, lastPre, raised, meta, loadType, refs, src,
                       out, curated, audit, tracker, cfg, catalog, coldef, events,
                       called, pc, caller>>

InitTarget ==
    /\ hist = <<>>
    /\ clock = 0
    /\ tbl = <<>>
    /\ lastOp = "none"
    /\ lastBatch = <<>>
    /\ lastPre = <<>>
    /\ raised = FALSE
    /\ meta = EmpMeta
    /\ loadType = "full"
    /\ refs = <<>>
    /\ src = <<>>
    /\ out = <<>>
    /\ curated = <<>>
    /\ result = [status |-> "none"]
    /\ audit = <<>>
    /\ tracker = <<>>
    /\ cfg \in TargetConfigs
    /\ catalog \in {{}, {TableOf(cfg.TargetSchema, cfg.TargetTable)}}
    /\ coldef = [ok |-> FALSE, error |-> "none"]
    /\ events = <<>>
    /\ called = <<>>
    /\ pc = "idle"
    /\ caller = "main"

NextTarget ==
    \/ ddl_stage
    \/ stage_handler

SpecTarget == InitTarget /\ [][NextTarget]_vars

(***************************************************************************)
(* The JobAudit table of several jobs: a row holds its JobName, and        *)
(* log_job_start and log_job_end are called in any order, as by            *)
(* invocations of run_job that interleave.                                 *)
(***************************************************************************)
MaxAuditRows == 3   \* rows of JobAudit
MaxAuditEnds == 2   \* calls of log_job_end

AuditJobs == {"JOB_EMP", "JOB_DEPT"}
AuditStages == {"init", "finalize"}

\* INSERT INTO JobAudit (JobName, Stage, StartTime, Status) ... 'Running'
audit_log_job_start(a, job, stage) ==
    Append(a, [JobName |-> job, Stage |-> stage, Status |-> "Running",
               EndTime |-> NULL])

\* an UPDATE that closes only the latest open row of (job, stage)
AuditLogJobEndLatestOnly(a, job, stage, status, now) ==
    LET open == {i \in DOMAIN a :
                    a[i].JobName = job /\ a[i].Stage = stage /\ a[i].EndTime = NULL}
    IN  [i \in DOMAIN a |->
            IF i \in open /\ \A k \in open : k <= i
            THEN [a[i] EXCEPT !.Status = status, !.EndTime = now]
            ELSE a[i]]

\* UPDATE JobAudit SET EndTime, Status
\* WHERE JobName = :job AND Stage = :stage AND EndTime IS NULL
audit_log_job_end(a, job, stage, status, now) ==
    [i \in DOMAIN a |->
        IF a[i].JobName = job /\ a[i].Stage = stage /\ a[i].EndTime = NULL
        THEN [a[i] EXCEPT !.Status = status, !.EndTime = now]
        ELSE a[i]]

log_job_start_call ==
    /\ Len(audit) < MaxAuditRows
    /\ \E job \in AuditJobs, stage \in AuditStages :
          /\ audit' = audit_log_job_start(audit, job, stage)
          /\ lastBatch' = <<job, stage>>
    /\ lastOp' = "log_job_start"
    /\ lastPre' = audit
    /\ UNCHANGED <<hist, clock, tbl, raised, meta, loadType, refs, src, out, curated,
                   result, tracker, jobVars>>

log_job_end_call ==
    /\ clock <= MaxAuditEnds
    /\ \E job \in AuditJobs, stage \in AuditStages, status \in {"success", "failed"} :
          /\ audit' = audit_log_job_end(audit, job, stage, status, clock)
          /\ lastBatch' = <<job, stage, status>>
    /\ lastOp' = "log_job_end"
    /\ lastPre' = audit
    /\ clock' = clock + 1
    /\ UNCHANGED <<hist, tbl, raised, meta, loadType, refs, src, out, curated,
                   result, tracker, jobVars>>

InitAudit ==
    /\ hist = <<>>
    /\ clock = 1
    /\ tbl = <<>>
    /\ lastOp = "none"
    /\ lastBatch = <<>>
    /\ lastPre = <<>>
    /\ raised = FALSE
    /\ meta = <<>>
    /\ loadType = "full"
    /\ refs = <<>>
    /\ src = <<>>
    /\ out = <<>>
    /\ curated = <<>>
    /\ result = [status |-> "none"]
    /\ audit = <<>>
    /\ tracker = <<>>
    /\ JobIdle

NextAudit ==
    \/ log_job_start_call
    \/ log_job_end_call

SpecAudit == InitAudit /\ [][NextAudit]_vars

(***************************************************************************)
(* Incremental runs of load_source_to_raw, one after the other, over the   *)
(* files under SourcePath, to which files are added between the runs.  A   *)
(* file is its position in src; tbl is the raw table as the sequence of    *)
(* the files whose rows were inserted.  _insert_raw commits all the rows   *)
(* of a run or none.                                                       *)
(***************************************************************************)
MaxRunDate == 4       \* the latest date of a file name
MaxSourceFiles == 3   \* files under SourcePath
MaxIncrRuns == 3      \* incremental runs

RunDates == 1..MaxRunDate

\* new_files.sort(key=lambda x: x[1]): the new files by date, ties in the
\* order of the listing
SortedByDate(files, new_files) ==
    LET Before(f, g) == files[f].date < files[g].date
                        \/ (files[f].date = files[g].date /\ f < g)
        Rank(f) == Cardinality({g \in new_files : Before(g, f)}) + 1
    IN  [n \in 1..Cardinality(new_files) |-> CHOOSE f \in new_files : Rank(f) = n]

\* a file is added under SourcePath
file_arrives ==
    /\ Len(src) < MaxSourceFiles
    /\ \E d \in RunDates \cup {NULL} : src' = Append(src, [date |-> d])
    /\ lastOp' = "file_arrives"
    /\ UNCHANGED <<hist, clock, tbl, lastBatch, lastPre, raised, meta, loadType, refs,
                   out, curated, result, audit, tracker, jobVars>>

\* one incremental run of load_source_to_raw; reading or inserting the new
\* files may raise
load_source_to_raw_incremental ==
    LET last_load_time == LastLoadTimeOr1900(tracker)
        new_files == NewFiles(src, last_load_time)
    IN  /\ src # <<>>
        /\ clock <= MaxIncrRuns
        /\ clock' = clock + 1
        /\ lastOp' = "load_source_to_raw"
        /\ lastBatch' = tbl
        /\ lastPre' = tracker
        /\ out' = new_files
        /\ \E loaded \in BOOLEAN :
              IF new_files = {}
              THEN /\ result' = [status |-> "success", rows |-> 0]
                   /\ UNCHANGED <<tbl, tracker>>
              ELSE IF loaded
              THEN /\ result' = [status |-> "success", rows |-> Cardinality(new_files)]
                   /\ tbl' = tbl \o SortedByDate(src, new_files)
                   /\ tracker' = _update_incremental_tracker(
                                     tracker, "source_raw", MaxFileDate(src, new_files))
              ELSE /\ result' = [status |-> "error"]
                   /\ UNCHANGED <<tbl, tracker>>
        /\ UNCHANGED <<hist, raised, meta, loadType, refs, src, curated, audit, jobVars>>

InitIncrement ==
    /\ hist = <<>>
    /\ clock = 1
    /\ tbl = <<>>
    /\ lastOp = "none"
    /\ lastBatch = <<>>
    /\ lastPre = <<>>
    /\ raised = FALSE
    /\ meta = <<>>
    /\ loadType = "incremental"
    /\ refs = <<>>
    /\ src = <<>>
    /\ out = {}
    /\ curated = <<>>
    /\ result = [status |-> "none"]
    /\ audit = <<>>
    /\ tracker = <<>>
    /\ JobIdle

NextIncrement ==
    \/ file_arrives
    \/ load_source_to_raw_incremental

SpecIncrement == InitIncrement /\ [][NextIncrement]_vars

(***************************************************************************)
(* Properties of scd2_merge (under SpecScd2)                               *)
(***************************************************************************)
Cols == Range(target_cols)

\* the rows the last scd2_merge inserted, and those it closed
Inserted == (Len(lastPre) + 1)..Len(hist)
Closed == {i \in DOMAIN lastPre : lastPre[i].IsCurrent /\ ~hist[i].IsCurrent}

SameOnCols(t, srow) == \A c \in Cols : t[c] = srow[c]

\* C1: after any sequence of scd2_merge calls on a table that starts empty,
\* every key has at most one stored row with IsCurrent = true.
C1_SingleCurrentPerKey ==
    \A k \in 1..MaxKey2 :
        Cardinality({i \in DOMAIN hist : hist[i].IsCurrent /\ hist[i].key = k}) <= 1

\* the batch is identical to the current snapshot of its keys: every batch
\* row has a key and equals a current stored row on all target columns, and
\* every current stored row of a key of the batch equals a batch row
IdenticalToSnapshot(t, df) ==
    LET s == ValuesClause(df)
    IN  /\ \A j \in DOMAIN s :
              /\ s[j].key # NULL
              /\ \E i \in DOMAIN t : t[i].IsCurrent /\ SameOnCols(t[i], s[j])
        /\ \A i \in DOMAIN t :
              (t[i].IsCurrent /\ \E j \in DOMAIN s : t[i].key = s[j].key)
                  => \E j \in DOMAIN s : SameOnCols(t[i], s[j])

\* C2: scd2_merge with a batch whose every row equals, on all target
\* columns, the current stored row of its key closes no row and inserts no
\* row: the stored table is unchanged.
C2_UnchangedBatchIsNoOp ==
    (lastOp = "scd2_merge" /\ IdenticalToSnapshot(lastPre, lastBatch))
        => hist = lastPre

\* C3: an incoming row whose key has a current stored row that differs in a
\* non-key column closes that stored row (IsCurrent false, EndTime set) and
\* exactly one new row is inserted for the key, with the incoming values,
\* EndTime null and IsCurrent true; an incoming row whose key has no current
\* stored row is inserted the same way and nothing is closed for it.
C3_ChangedOrNewKeyGetsOneNewVersion ==
    lastOp = "scd2_merge" =>
        \A j \in {m \in DOMAIN lastBatch : lastBatch[m].key # NA} :
            LET srow == ValuesClause(lastBatch)[j]
                cur == {i \in DOMAIN lastPre :
                          lastPre[i].IsCurrent /\ lastPre[i].key = srow.key}
                new == {n \in Inserted : hist[n].key = srow.key}
                asIncoming(n) == /\ SameOnCols(hist[n], srow)
                                 /\ hist[n].EndTime = NULL
                                 /\ hist[n].IsCurrent
            IN  /\ (\E i \in cur : ChangeChecks(lastPre[i], srow)) =>
                      /\ \A i \in cur : ChangeChecks(lastPre[i], srow) =>
                            ~hist[i].IsCurrent /\ hist[i].EndTime # NULL
                      /\ Cardinality(new) = 1
                      /\ \A n \in new : asIncoming(n)
                /\ cur = {} =>
                      /\ Cardinality(new) = 1
                      /\ \A n \in new : asIncoming(n)
                      /\ \A i \in Closed : hist[i].key # srow.key

\* C4: within one scd2_merge the EndTime of every closed row and the
\* StartTime of every inserted row are the same timestamp, so each closed
\* version's EndTime is the StartTime of the next version of its key.
C4_OneTimestampPerMerge ==
    /\ lastOp = "scd2_merge" =>
          \A i \in Closed : \A n \in Inserted :
              hist[i].EndTime = hist[n].StartTime
    /\ \A i \in DOMAIN hist :
          (~hist[i].IsCurrent /\ hist[i].key # NULL) =>
              \E n \in DOMAIN hist :
                  /\ n > i
                  /\ hist[n].key = hist[i].key
                  /\ hist[n].StartTime = hist[i].EndTime

(***************************************************************************)
(* Properties of scd1_merge (under SpecScd1)                               *)
(***************************************************************************)
\* the last batch row with the key of batch row j (NA keys count as equal)
LastWithKey(df, j) ==
    CHOOSE m \in DOMAIN df :
        /\ df[m].key = df[j].key
        /\ \A m2 \in DOMAIN df : df[m2].key = df[j].key => m2 <= m

\* C5: after scd1_merge the target holds exactly one row for each key of
\* the batch, carrying the values of the last batch row with that key; the
\* rows of keys not in the batch are unchanged.
C5_OneRowPerBatchKeyLastWins ==
    lastOp = "scd1_merge" =>
        LET s == ValuesClause(lastBatch)
            batchKeys == {s[j].key : j \in DOMAIN s}
            other(t) == SelectSeq(t, LAMBDA r : r.key \notin batchKeys)
        IN  /\ \A j \in {m \in DOMAIN s : s[m].key # NULL} :
                  LET rows == {i \in DOMAIN tbl : tbl[i].key = s[j].key}
                  IN  /\ Cardinality(rows) = 1
                      /\ \A i \in rows :
                            SameOnCols(tbl[i], s[LastWithKey(lastBatch, j)])
            /\ other(tbl) = other(lastPre)

\* C6: applying scd1_merge twice in a row with the same batch leaves the
\* same stored table as applying it once.
C6_Scd1Idempotent ==
    lastOp = "scd1_merge" => Scd1Result(tbl, lastBatch) = tbl

(***************************************************************************)
(* Properties of load_raw_to_curated (under SpecCurate)                    *)
(***************************************************************************)
\* the source rows as the pipeline converts their cells (the null
\* normalization and the casts), with no row dropped: row i of the source
\* is row i here
Converted == cast_dataframe_types(CleanCells(src, ColumnsOf(meta)), meta)

SamePk(r1, r2) == \A c \in PkCols(meta) : r1[c] = r2[c]

LastIndex(S) == CHOOSE i \in S : \A i2 \in S : i2 <= i

\* the columns that must not be null: IsNullable = 0, and the primary key
RequiredCols ==
    {meta[m].TargetColumnName :
        m \in {x \in DOMAIN meta : meta[x].IsNullable = 0 \/ meta[x].IsPK = 1}}

\* the row is dropped by the not-null rule or by the no-negative rule
RejectedByOtherRule(row) ==
    \/ \E c \in RequiredCols : IsNa(row[c])
    \/ \E c \in ColumnsOf(meta) : row[c].k = "num" /\ row[c].v < 0

\* C7: for any raw batch with duplicate primary-key values, the output of
\* the enforcement steps holds exactly one row per key, and that row is the
\* last occurrence of the key in source order.
\* (Occurrences that another rule rejects, a negative number or a null in a
\* required column, are left out of "last".)
C7_PkDedupKeepsLastOccurrence ==
    lastOp = "load_raw_to_curated" =>
        \A r \in DOMAIN out :
            LET occurrences == {i \in DOMAIN Converted :
                                   /\ SamePk(Converted[i], out[r])
                                   /\ ~RejectedByOtherRule(Converted[i])}
            IN  /\ \A q \in DOMAIN out : SamePk(out[q], out[r]) => q = r
                /\ occurrences # {}
                /\ out[r] = Converted[LastIndex(occurrences)]

NumericTypes == {"INT", "BIGINT", "DECIMAL", "NUMERIC", "FLOAT"}

\* the cell holds a value below zero, as a number or as the text of one
BelowZero(c) ==
    \/ c.k = "num" /\ c.v < 0
    \/ c.k = "str" /\ c.s \in NumericStrings /\ ParseNumber(c.s) < 0

\* C8: no row in which a column declared INT, BIGINT, DECIMAL, NUMERIC or
\* FLOAT holds a value below zero is in the batch handed to the load.
C8_NoNegativeNumericHanded ==
    lastOp = "load_raw_to_curated" =>
        \A r \in DOMAIN out : \A m \in DOMAIN meta :
            meta[m].TargetDataType \in NumericTypes
                => ~BelowZero(out[r][meta[m].TargetColumnName])

\* source row i has a null in a required column
HasRequiredNull(i) ==
    \E c \in RequiredCols : IsNa(CleanCells(src, ColumnsOf(meta))[i][c])

\* source row i, as converted, is a row of the curated table
IsLoaded(i) ==
    \E q \in DOMAIN curated : curated[q] = DbStoreAll(Converted, meta)[i]

\* C9: no row with a null in a column flagged IsNullable = 0, or a null
\* primary key, is loaded into the curated table, whatever the column type.
C9_NoRequiredNullLoaded ==
    lastOp = "load_raw_to_curated" =>
        \A i \in DOMAIN src : HasRequiredNull(i) => ~IsLoaded(i)

(***************************************************************************)
(* Properties of enforce_pk_fk (under SpecEnforce)                         *)
(***************************************************************************)
FkRules == {m \in DOMAIN meta : IsFkRule(meta[m])}

LookupReadable(m) == refs[meta[m].ReferenceTable].readable

\* the row's value is among the values present in the referenced column
AmongReferenced(m, row) ==
    /\ ~IsNa(row[meta[m].TargetColumnName])
    /\ row[meta[m].TargetColumnName] \in refs[meta[m].ReferenceTable].values

\* the row passes every FK rule whose lookup did not raise
PassesReadableRules(row) ==
    \A m \in FkRules : LookupReadable(m) => AmongReferenced(m, row)

BeforeFk == EnforceNotNull(EnforcePk(src, meta), meta)

\* C10: for every FK rule the rows whose value is not among the referenced
\* values are dropped; a rule whose lookup raises is skipped and leaves the
\* batch unfiltered, the remaining rules still run, and enforce_pk_fk does
\* not raise.
C10_FkRuleFiltersOrIsSkipped ==
    lastOp = "enforce_pk_fk" =>
        /\ ~raised
        /\ \A r \in DOMAIN out : PassesReadableRules(out[r])
        /\ \A b \in DOMAIN BeforeFk :
              PassesReadableRules(BeforeFk[b]) => \E r \in DOMAIN out : out[r] = BeforeFk[b]
        /\ \A r \in DOMAIN out : \E b \in DOMAIN BeforeFk : out[r] = BeforeFk[b]

\* C10 witness: the first rule's lookup raised, the second rule ran and
\* dropped a row, and a row whose first FK value could not be checked stayed
C10_Witness ==
    /\ lastOp = "enforce_pk_fk"
    /\ FkRules = {2, 3}
    /\ ~LookupReadable(2)
    /\ LookupReadable(3)
    /\ Len(out) < Len(BeforeFk)
    /\ \E r \in DOMAIN out : ~IsNa(out[r].fk1)

(***************************************************************************)
(* Properties of the ddl stage (under SpecDdl and SpecColumnDef)           *)
(***************************************************************************)
\* the job's table, under the name create_target_tables derives
JobTableIn(cat) == _table_exists(cat, cfg.TargetSchema, DerivedTableName(cfg.TargetSchema))

\* the columns flagged IsPK = 1
PkFlagged == {meta[n].TargetColumnName : n \in {x \in DOMAIN meta : meta[x].IsPK = 1}}

BadColumn(m) ==
    \/ m.TargetDataType \notin ALLOWED_TYPES
    \/ m.TargetDataType \in VARLEN_TYPES /\ m.Length <= 0

\* C12: when a column of a curated or processed job has an unrecognized
\* type, or a VARCHAR/NVARCHAR column has Length <= 0, create_target_tables
\* reports failure and creates no table, so that a second call does not
\* find a table and succeed.
C12_BadColumnCreatesNoTable ==
    (/\ lastOp = "create_target_tables"
     /\ cfg.TargetSchema \in {"curated", "processed"}
     /\ \E n \in DOMAIN meta : BadColumn(meta[n])) =>
        /\ ~JobTableIn(lastPre) => (result.status = "error" /\ ~JobTableIn(catalog))
        /\ (Len(audit) = MaxDdlCalls /\ audit[1].Status = "failed") => result.status = "error"

\* C13: for TargetSchema = raw, _build_column_def returns a nullable
\* NVARCHAR(MAX) column whatever TargetDataType, Length, IsPK and IsNullable
\* are, and raises nothing.
C13_RawColumnIsNullableText ==
    (lastOp = "_build_column_def" /\ cfg.TargetSchema = "raw") =>
        coldef = ColumnDef(meta[1].TargetColumnName, "NVARCHAR", "MAX", "NULL")

\* C13 witness: a raw column whose declared type is not an allowed type,
\* with a negative Length, flagged primary key and not nullable
C13_Witness ==
    /\ lastOp = "_build_column_def"
    /\ cfg.TargetSchema = "raw"
    /\ meta[1].TargetDataType = "XML"
    /\ meta[1].Length < 0
    /\ meta[1].IsPK = 1
    /\ meta[1].IsNullable = 0
    /\ coldef.ok

\* C14: if the job's table exists already (names compared in lower case),
\* create_target_tables creates nothing, leaves the table as it is and
\* returns status success, also for a job whose SCDType is unset.
C14_ExistingTableIsNoOpSuccess ==
    (/\ lastOp = "create_target_tables"
     /\ meta # <<>>
     /\ JobTableIn(lastPre)) =>
        catalog = lastPre /\ result.status = "success"

(***************************************************************************)
(* Properties of run_job (under SpecJob)                                   *)
(***************************************************************************)
\* the generator is past the branch on TargetSchema of this invocation
AfterBranch == pc \in {"stage_done", "stage_error", "stage_exception", "finalize"}

\* C15 (as stated): in an invocation whose ddl stage succeeded, exactly one
\* stage handler is called, the one that belongs to the job's TargetSchema.
C15_ExactlyOneHandlerByTargetSchema ==
    AfterBranch => called = <<HandlerName(cfg.TargetSchema)>>

\* C15 (amended): in an invocation whose ddl stage succeeded, the handler
\* that belongs to the job's TargetSchema is called once and no other is,
\* except for a curated or processed job without SourceTable: then no
\* handler is called and the stage ends with an error event.
C15_OneHandlerUnlessSourceMissing ==
    AfterBranch =>
        IF cfg.TargetSchema \in {"curated", "processed"} /\ cfg.SourceTable = ""
        THEN called = <<>> /\ pc = "stage_exception"
        ELSE called = <<HandlerName(cfg.TargetSchema)>>

\* a raw job without SourceTable has had load_source_to_raw called
C15_Witness ==
    /\ AfterBranch
    /\ cfg.TargetSchema = "raw"
    /\ cfg.SourceTable = ""
    /\ called = <<"load_source_to_raw">>

\* C16: once a stage of an invocation has failed nothing more happens in
\* that invocation: an error event is the last event run_job yields, so the
\* event after it, if any, is the init event of the next invocation.
C16_ErrorEventIsLast ==
    \A i \in 1..(Len(events) - 1) :
        events[i].status = "error" => events[i + 1] = Event("init", "running")

\* the JobAudit rows of a stage that are still open
OpenRows(stage) == {i \in DOMAIN audit : audit[i].Stage = stage /\ audit[i].EndTime = NULL}

\* C17: between invocations of run_job that ran to their end, no stage of
\* the job has more than one JobAudit row with EndTime null.
C17_AtMostOneOpenRowPerStage ==
    (caller = "drain" /\ pc = "idle") =>
        \A i \in DOMAIN audit : Cardinality(OpenRows(audit[i].Stage)) <= 1

\* the JobAudit rows of a stage, and the one opened last
RowsOf(stage) == {i \in DOMAIN audit : audit[i].Stage = stage}
LastRowOf(stage) == CHOOSE i \in RowsOf(stage) : \A j \in RowsOf(stage) : j <= i

\* C18: when an invocation of run_job has ended with the error event of a
\* stage, the JobAudit row opened for that stage is closed with Status
\* 'failed', whether the caller took every event or left at the error event.
C18_FailedStageRowClosedFailed ==
    (pc = "idle" /\ events # <<>> /\ events[Len(events)].status = "error") =>
        LET stage == events[Len(events)].step
        IN  RowsOf(stage) # {} =>
                /\ audit[LastRowOf(stage)].EndTime # NULL
                /\ audit[LastRowOf(stage)].Status = "failed"

(***************************************************************************)
(* Properties of the JobAudit rows of a stage handler (under SpecCurate)   *)
(***************************************************************************)
\* C19: every JobAudit row has Status Running, success or failed, and its
\* Status is Running exactly when its EndTime is null.
C19_AuditStatusEnumerated ==
    \A i \in DOMAIN audit :
        /\ audit[i].Status \in {"Running", "success", "failed"}
        /\ audit[i].Status = "Running" <=> audit[i].EndTime = NULL

(***************************************************************************)
(* Properties of the IncrementalTracker (under SpecJob)                    *)
(***************************************************************************)
\* C20: a step in which a stage handler is called for a job with
\* LoadType = full changes no IncrementalTracker row and creates none,
\* whatever the handler returns.
C20_FullLoadLeavesTracker ==
    [][(Len(called') > Len(called) /\ cfg.LoadType = "full") => tracker' = tracker]_vars

\* a handler ran a full load that failed and the tracker rows written by
\* earlier loads are as they were
C20_Witness ==
    /\ pc = "stage_error"
    /\ called # <<>>
    /\ cfg.LoadType = "full"
    /\ result.status = "error"
    /\ \A stage \in TrackerStages : tracker[stage] = clock - 1

(***************************************************************************)
(* Properties of the loads of load_raw_to_curated (under SpecCurate)       *)
(***************************************************************************)
\* C21: when the incremental load of the stage has failed, the
\* IncrementalTracker row of the stage keeps the value it had before.
C21_TrackerKeptWhenIncrementalLoadFails ==
    (lastOp = "load_raw_to_curated" /\ loadType = "incremental"
        /\ result.status = "error") =>
            tracker["raw_curated"] = NULL

(***************************************************************************)
(* Properties of full_load and incremental_load (under SpecLoad)           *)
(***************************************************************************)
\* C22: when full_load has failed, the target table holds exactly the rows
\* it held before the load started.
C22_FailedFullLoadLeavesTable ==
    (lastOp = "full_load" /\ result.status = "error") => curated = lastPre

(***************************************************************************)
(* Properties of the record load_raw_to_curated returns (under SpecCurate) *)
(***************************************************************************)
\* C23: the record a stage handler returns has a status, success or error,
\* and an integer rows field, on the error paths too.  (The message field,
\* which every return statement of the handlers sets, is not modelled.)
C23_ResultHasStatusAndRows ==
    lastOp = "load_raw_to_curated" =>
        /\ result.status \in {"success", "error"}
        /\ "rows" \in DOMAIN result
        /\ result.rows \in Nat

(***************************************************************************)
(* Properties of load_curated_to_processed (under SpecProcessed)           *)
(***************************************************************************)
\* the handler handed the rows it read to a load function, or would have
HandsRowsOn == lastOp \notin {"none", "read failed", "no rows"}

\* C24: an incremental load_curated_to_processed that has rows to load hands
\* them to scd1_merge when SCDType is 1, to scd2_merge when it is 2, and to
\* incremental_load when it is unset or anything else.
C24_IncrementalDispatchBySCDType ==
    (HandsRowsOn /\ cfg.LoadType = "incremental") =>
        lastOp = CASE cfg.SCDType = 1 -> "scd1_merge"
                   [] cfg.SCDType = 2 -> "scd2_merge"
                   [] OTHER -> "incremental_load"

(***************************************************************************)
(* The employee job: target curated, LoadType incremental, SCDType unset,  *)
(* Metadata EmpId and Name (under SpecJob)                                 *)
(***************************************************************************)
EmpJob == cfg = ConfigRow("curated", "incremental", NULL, "t") /\ meta = EmpMeta

\* C25: the run of the employee job reaches finalize with the batch merged
\* into the curated table; so it is not stopped by an error of the ddl stage.
C25_EmpJobPassesDdl ==
    EmpJob => \A i \in DOMAIN events : events[i] # Event("ddl", "error")

\* the DataFrame has one row per key: no key is missing, none occurs twice
OneRowPerKey(df) ==
    /\ \A j \in DOMAIN df : ~IsNa(df[j].key)
    /\ \A j, j2 \in DOMAIN df : j # j2 => df[j].key # df[j2].key

\* the staging rows of the last load, and those that match no target row
Staged == DbStoreAll(lastBatch, meta)
Unmatched == {j \in DOMAIN Staged : \A i \in DOMAIN lastPre : lastPre[i].key # Staged[j].key}

\* the table after an incremental_load of a DataFrame with one row per key
MergedByKey ==
    /\ Len(curated) = Len(lastPre) + Cardinality(Unmatched)
    /\ \A i \in DOMAIN lastPre :
          IF \E j \in DOMAIN Staged : Staged[j].key = lastPre[i].key
          THEN \E j \in DOMAIN Staged :
                  /\ Staged[j].key = lastPre[i].key
                  /\ curated[i] = [key |-> lastPre[i].key, val |-> Staged[j].val]
          ELSE curated[i] = lastPre[i]
    /\ \A j \in Unmatched :
          Cardinality({i \in DOMAIN curated : i > Len(lastPre) /\ curated[i] = Staged[j]}) = 1

\* C26: a successful incremental_load of a DataFrame with one row per key
\* updates the non-key column of the target rows with a matching key,
\* inserts the rows whose key matches none and leaves the other rows as
\* they were; loading the same DataFrame once more changes nothing.
C26_IncrementalLoadUpsertsAndIsIdempotent ==
    /\ []((lastOp = "incremental_load" /\ result.status = "success"
            /\ OneRowPerKey(lastBatch)) => MergedByKey)
    /\ [][(lastOp = "incremental_load" /\ result.status = "success"
            /\ lastOp' = "incremental_load" /\ OneRowPerKey(out))
              => (curated' = curated /\ result'.status = "success")]_vars

\* the same one-row DataFrame has been merged twice into a table that holds
\* a row with another key as well
C26_Witness ==
    /\ clock = MaxLoads + 1
    /\ lastOp = "incremental_load"
    /\ result.status = "success"
    /\ OneRowPerKey(out)
    /\ Len(out) = 1
    /\ Len(curated) = 2
    /\ curated = lastPre

(***************************************************************************)
(* Properties of the IncrementalTracker (under SpecTracker)                *)
(***************************************************************************)
TrackerRows(rows, stage) == {i \in DOMAIN rows : rows[i].Stage = stage}

\* one row at most per stage; a write leaves exactly one row for its stage,
\* holding the value written, and no call removes or changes another row
TrackerIsUpsert ==
    /\ \A stage \in WrittenStages : Cardinality(TrackerRows(tracker, stage)) <= 1
    /\ Len(tracker) >= Len(lastPre)
    /\ lastOp = "_update_incremental_tracker" =>
          /\ Cardinality(TrackerRows(tracker, lastBatch[1])) = 1
          /\ _get_incremental_tracker(tracker, lastBatch[1]) = lastBatch[2]
    /\ lastOp # "none" =>
          \A stage \in WrittenStages \ {lastBatch[1]} :
              _get_incremental_tracker(tracker, stage)
                  = _get_incremental_tracker(lastPre, stage)

\* a read changes nothing and returns null for a stage never written
TrackerReadIsNullWhenAbsent ==
    lastOp = "_get_incremental_tracker" =>
        /\ tracker = lastPre
        /\ TrackerRows(lastPre, lastBatch[1]) = {} <=> result.value = NULL

\* an incremental source-to-raw run started without a watermark
FirstIncrementalRun ==
    lastOp = "load_source_to_raw" /\ TrackerRows(lastPre, "source_raw") = {}

DatedFiles == {f \in DOMAIN src : src[f].date # NULL}

ColumnBuilt == lastOp = "_build_column_def" /\ coldef.ok

PkConstraints == {"PRIMARY KEY", "PRIMARY KEY NOT NULL"}

\* C28: the definition of a curated column with IsPK = 1 carries PRIMARY
\* KEY; the definition of a processed column never does, whatever its IsPK.
C28_PkInlineInCuratedNeverInProcessed ==
    ColumnBuilt =>
        /\ (cfg.TargetSchema = "curated" /\ meta[1].IsPK = 1)
              => coldef.constraint \in PkConstraints
        /\ cfg.TargetSchema = "processed" => coldef.constraint \notin PkConstraints

\* a processed column flagged IsPK = 1 has been defined
C28_Witness ==
    /\ ColumnBuilt
    /\ cfg.TargetSchema = "processed"
    /\ meta[1].IsPK = 1
    /\ coldef.constraint \notin PkConstraints

\* C29: the definition of a curated or processed column that is no key is
\* NOT NULL when IsNullable = 0 and NULL when IsNullable = 1.
C29_NullabilityFollowsMetadata ==
    (ColumnBuilt /\ cfg.TargetSchema \in {"curated", "processed"}
        /\ meta[1].IsPK = 0) =>
            coldef.constraint = IF meta[1].IsNullable = 0 THEN "NOT NULL" ELSE "NULL"

(***************************************************************************)
(* Properties of the SCD2 history columns (under SpecDdl)                  *)
(***************************************************************************)
\* the table of the job as the last create_target_tables left it
JobTable == CHOOSE t \in catalog : t.name = DerivedTableName(cfg.TargetSchema)

HistoryColumns == {"RowID", "StartTime", "EndTime", "IsCurrent"}

\* the first call for a job whose columns are all well defined and whose
\* table did not exist
CleanSynthesis ==
    /\ lastOp = "create_target_tables"
    /\ Len(audit) = 1
    /\ lastPre = {}
    /\ meta # <<>>
    /\ \A m \in DOMAIN meta : ~BadColumn(meta[m])
    /\ ~MultiplePrimaryKeys(meta, cfg.TargetSchema)
    /\ \A m, n \in DOMAIN meta :
          m # n => meta[m].TargetColumnName # meta[n].TargetColumnName

\* C30: the table is created with RowID as first column and StartTime,
\* EndTime and IsCurrent as last columns when the schema is processed and
\* SCDType is 2; for every other layer or SCDType, unset included, it is
\* created without any of the four and the call succeeds.
C30_HistoryColumnsExactlyForProcessedScd2 ==
    CleanSynthesis =>
        /\ result.status = "success"
        /\ JobTableIn(catalog)
        /\ LET cols == JobTable.cols
               n == Len(cols)
           IN  IF cfg.TargetSchema = "processed" /\ cfg.SCDType = 2
               THEN /\ n = Len(meta) + 4
                    /\ cols[1].col = "RowID"
                    /\ cols[1].constraint = "PRIMARY KEY"
                    /\ cols[n - 2].col = "StartTime"
                    /\ cols[n - 1].col = "EndTime"
                    /\ cols[n - 1].constraint = "NULL"
                    /\ cols[n].col = "IsCurrent"
               ELSE \A i \in DOMAIN cols : cols[i].col \notin HistoryColumns

(***************************************************************************)
(* A job whose Metadata holds a row twice (under SpecJob)                  *)
(***************************************************************************)
\* the ddl stage of the first invocation has run for the job with the
\* duplicate row; its SCDType is set and its table did not exist
DuplicateJobPastDdl ==
    /\ cfg # NoConfig
    /\ meta = DuplicateMeta
    /\ Runs = 1
    /\ pc # "init"
    /\ cfg.SCDType # NULL

\* C31: with a duplicate Metadata row the table is created from the other
\* columns and the job is not aborted: the ddl stage yields no error event
\* and run_job goes on to the stage handler.
C31_DuplicateColumnDoesNotAbortJob ==
    DuplicateJobPastDdl =>
        /\ JobTableIn(catalog)
        /\ \A i \in DOMAIN events : events[i] # Event("ddl", "error")

(***************************************************************************)
(* Tracker accesses of a stage execution (under SpecStage)                 *)
(***************************************************************************)
IncrementalExecution == lastOp # "none" /\ cfg.LoadType = "incremental"

\* C32: every incremental stage execution reads the tracker row of
\* (job, stage) exactly once, at its start, and writes it exactly once, at
\* its end.
C32_TrackerReadOnceWrittenOnce ==
    IncrementalExecution => lastBatch = <<"get", "update">>

\* the tracker changes only in an execution that holds an "update"
TrackerChangesOnlyOnUpdate ==
    (lastOp # "none" /\ tracker # lastPre) => \E i \in DOMAIN lastBatch : lastBatch[i] = "update"

\* the first execution that holds an "update" changes the tracker
FirstUpdateChangesTracker ==
    (Len(called) = 1 /\ \E i \in DOMAIN lastBatch : lastBatch[i] = "update")
        => tracker # lastPre

(***************************************************************************)
(* The order of the raw-to-curated rules (under SpecCurate)                *)
(***************************************************************************)
\* the batch with the no-negative filter applied after the primary key,
\* not-null and foreign key rules
NoNegativeAfterPkFk(df, metadata, reference) ==
    enforce_no_negative(
        enforce_pk_fk(
            cast_dataframe_types(clean_dataframe(df, ColumnsOf(metadata)), metadata),
            metadata, reference))

\* C33: the rules are applied in the order primary key, not-null, foreign
\* key, no-negative-numeric: the batch handed to the load is the batch
\* deduplicated on the primary key first and filtered on negative numbers
\* last.
C33_NoNegativeRunsOnDeduplicatedBatch ==
    lastOp = "load_raw_to_curated" => out = NoNegativeAfterPkFk(src, meta, refs)

(***************************************************************************)
(* The events of one invocation of run_job (under SpecJob)                 *)
(***************************************************************************)
InvocationStarts == {i \in DOMAIN events : events[i] = Event("init", "running")}

\* the events of the latest invocation
LatestInvocation ==
    LET start == CHOOSE i \in InvocationStarts : \A k \in InvocationStarts : k <= i
    IN  SubSeq(events, start, Len(events))

HandlerStep ==
    CASE cfg.TargetSchema = "raw" -> "source_to_raw"
      [] cfg.TargetSchema = "curated" -> "raw_to_curated"
      [] cfg.TargetSchema = "processed" -> "curated_to_processed"

SuccessfulEvents ==
    <<Event("init", "running"), Event("ddl", "done"), Event(HandlerStep, "done"),
      Event("finalize", "done")>>

EndsInvocation(e) == e.step = "finalize" \/ e.status = "error"

\* C34: an invocation that yields a finalize event has yielded exactly init,
\* ddl, the step of the one handler of its TargetSchema and finalize, each
\* stage having succeeded; every invocation that has ended has ended with a
\* finalize event or an event of status error.
C34_EventOrderAndTermination ==
    events # <<>> =>
        LET inv == LatestInvocation
        IN  /\ (\E i \in DOMAIN inv : inv[i].step = "finalize") =>
                  /\ inv = SuccessfulEvents
                  /\ result.status = "success"
                  /\ called = <<HandlerName(cfg.TargetSchema)>>
            /\ pc = "idle" => EndsInvocation(inv[Len(inv)])
            /\ \A s \in InvocationStarts : s > 1 => EndsInvocation(events[s - 1])

\* a failed invocation followed by a successful one, both ended
C34_Witness ==
    /\ pc = "idle"
    /\ Len(events) = 7
    /\ events[3] = Event(HandlerStep, "error")
    /\ SubSeq(events, 4, 7) = SuccessfulEvents

(***************************************************************************)
(* The table of the ddl stage and of the handler (under SpecTarget)        *)
(***************************************************************************)
\* C35: for every JobName and TargetTable, the table the ddl stage creates
\* or verifies is the table (TargetSchema, TargetTable) of the config row,
\* the table the stage handler then loads into.
C35_DdlTableIsConfigTargetTable ==
    /\ (lastOp = "create_target_tables" /\ result.status = "success") =>
          /\ lastBatch = <<cfg.TargetSchema, cfg.TargetTable>>
          /\ _table_exists(catalog, cfg.TargetSchema, cfg.TargetTable)
    /\ lastOp = "stage_handler" =>
          _table_exists(catalog, cfg.TargetSchema, cfg.TargetTable)

(***************************************************************************)
(* log_job_end on the rows of several jobs and invocations (under          *)
(* SpecAudit)                                                              *)
(***************************************************************************)
\* the rows the last log_job_end call addressed: open rows of its job and stage
OpenBefore ==
    {i \in DOMAIN lastPre :
        /\ lastPre[i].JobName = lastBatch[1]
        /\ lastPre[i].Stage = lastBatch[2]
        /\ lastPre[i].EndTime = NULL}

\* C36: log_job_end(job, stage) closes every row of (job, stage) whose
\* EndTime is null, however many there are and whoever opened them, and
\* leaves every other row as it was: the closed rows and the rows of another
\* job or stage; with no open row it changes nothing.
C36_LogJobEndClosesAllOpenRows ==
    lastOp = "log_job_end" =>
        /\ DOMAIN audit = DOMAIN lastPre
        /\ \A i \in OpenBefore :
              /\ audit[i].EndTime = clock - 1
              /\ audit[i].Status = lastBatch[3]
              /\ audit[i].JobName = lastPre[i].JobName
              /\ audit[i].Stage = lastPre[i].Stage
        /\ \A i \in DOMAIN lastPre \ OpenBefore : audit[i] = lastPre[i]
        /\ OpenBefore = {} => audit = lastPre

\* one call has closed two open rows of one job and stage and has left the
\* open row of another job as it was
C36_Witness ==
    /\ lastOp = "log_job_end"
    /\ Cardinality(OpenBefore) = 2
    /\ \E i \in DOMAIN audit :
          /\ audit[i].JobName # lastBatch[1]
          /\ audit[i].Stage = lastBatch[2]
          /\ audit[i].EndTime = NULL

(***************************************************************************)
(* Incremental runs of load_source_to_raw (under SpecIncrement)            *)
(***************************************************************************)
\* the watermark a run reads: the tracker row, 1 January 1900 without one
WatermarkOf(rows) ==
    IF \E i \in DOMAIN rows : rows[i].Stage = "source_raw"
    THEN (CHOOSE r \in Range(rows) : r.Stage = "source_raw").LastLoadTime
    ELSE Epoch1900

\* the files the last run inserted into the raw table
LoadedByRun == {tbl[i] : i \in (Len(lastBatch) + 1)..Len(tbl)}

LaterThan(date) == {f \in DOMAIN src : src[f].date # NULL /\ src[f].date > date}

\* C37: an incremental run loads exactly the files dated strictly later
\* than the watermark it read and, on success, sets the watermark to the
\* latest date among them; no file is in the raw table twice, the watermark
\* never decreases, and a run that finds no newer file loads nothing and
\* leaves the watermark unchanged.
C37_IncrementalRunsLoadEachFileOnce ==
    /\ \A i, j \in DOMAIN tbl : tbl[i] = tbl[j] => i = j
    /\ lastOp = "load_source_to_raw" =>
          /\ SubSeq(tbl, 1, Len(lastBatch)) = lastBatch
          /\ WatermarkOf(tracker) >= WatermarkOf(lastPre)
          /\ result.status = "success" =>
                /\ LoadedByRun = LaterThan(WatermarkOf(lastPre))
                /\ LoadedByRun # {} =>
                      /\ \A f \in LoadedByRun : src[f].date <= WatermarkOf(tracker)
                      /\ \E f \in LoadedByRun : src[f].date = WatermarkOf(tracker)
          /\ result.status = "error" => LoadedByRun = {} /\ tracker = lastPre
          /\ LaterThan(WatermarkOf(lastPre)) = {} =>
                /\ LoadedByRun = {}
                /\ tracker = lastPre
                /\ result.status = "success"

\* a second successful run has loaded the one file that arrived after the
\* first, and a file dated on the day of the first watermark stays out
C37_Witness ==
    /\ lastOp = "load_source_to_raw"
    /\ result.status = "success"
    /\ Len(lastBatch) = 1
    /\ Len(tbl) = 2
    /\ \E f \in DOMAIN src : src[f].date = WatermarkOf(lastPre) /\ f \notin Range(tbl)

====
